---- MODULE Spec2Model ----
(***************************************************************************)
(* Model of the API gateway of golang-microservices-boilerplate:           *)
(*   - KubernetesDiscovery (services/api-gateway/internal/infrastructure/  *)
(*     k8s/discovery.go): discovery snapshot, connection table, background *)
(*     refresh, GetConnection, Close;                                      *)
(*   - Gateway.Start / setupHandlers (internal/gateway) and main.          *)
(* Each critical section of the code (the statements between a Lock and    *)
(* its Unlock) is one or two actions; the steps of RefreshConnections of   *)
(* different goroutines interleave as the two mutexes of the code allow.   *)
(***************************************************************************)
EXTENDS Integers, Sequences, FiniteSets, TLC

VARIABLES
    cluster,           \* what the control plane lists now: a sequence of items
    changes,           \* number of membership changes made by the environment
    proc,              \* the gateway process: "running", "fatal" or "exited"
    pc,                \* position of each goroutine
    services,          \* kd.services: the stored discovery snapshot
    connections,       \* kd.connections: name -> index in conns
    conns,             \* the *grpc.ClientConn objects still referenced: id -> object
    connectionsMutex,  \* holder of the write lock of kd.connectionsMutex, or NoProc
    done,              \* kd.done is closed
    rc,                \* locals and record of each goroutine's RefreshConnections call
    gc,                \* locals and record of each caller's GetConnection call
    closeRes,          \* what KubernetesDiscovery.Close did and returned
    gw,                \* the Gateway: routes on gwMux, setupHandlers' result, listener
    lastRun,           \* the snapshot and the resulting table of the last reconciliation
    disc,              \* one call of discoverServices: its listing, prefix and result
    reader,            \* one call of GetAllServices: its position, locals and result
    up,                \* one upload request in handleWaterQualityUpload
    call,              \* one call of a function of the gateway: its argument and result
    other              \* another upload request in flight in handleWaterQualityUpload

\* the calls made on the component and the gateway from outside main's goroutines
callVars == <<disc, reader, up, call, other>>

vars == <<cluster, changes, proc, pc, services, connections, conns,
          connectionsMutex, done, rc, gc, closeRes, gw,
          lastRun, disc, reader, up, call, other>>

-----------------------------------------------------------------------------
(* Bounds of the model *)

\* membership changes the environment makes in one behaviour
MaxChanges == 1

-----------------------------------------------------------------------------
(* Values *)

\* the port discoverServices looks for by number
grpcDefaultPort == 50051

\* main: utils.GetEnv("K8S_NAMESPACE", "ride-sharing")
namespace == "ride-sharing"

\* main passes no WithServicePrefix option
servicePrefix == ""

Port(name, port) == [Name |-> name, Port |-> port]
Item(name, ports) == [Name |-> name, Ports |-> ports]

UserGrpc   == Item("user-service", <<Port("grpc", grpcDefaultPort)>>)
UserMoved  == Item("user-service", <<Port("http", 8080), Port("grpc", 9000)>>)
WaterPlain == Item("water-quality-service", <<Port("", 7000)>>)
BillingHttp == Item("billing", <<Port("http", 8080)>>)

\* the listings the control plane may return (names are unique within a listing)
ClusterCatalog ==
    { <<>>,
      <<UserGrpc, WaterPlain>>,
      <<UserMoved, WaterPlain>>,
      <<BillingHttp, UserGrpc>> }

\* the names request goroutines ask GetConnection for
QueryNames == {"user-service", "billing"}

\* the spelling of the strings whose prefixes the code tests
Chars(s) ==
    CASE s = "" -> <<>>
      [] s = "user-" -> <<"u", "s", "e", "r", "-">>
      [] s = "water-" -> <<"w", "a", "t", "e", "r", "-">>
      [] s = "user-service" -> <<"u", "s", "e", "r", "-", "s", "e", "r", "v", "i", "c", "e">>
      [] s = "water-quality-service" ->
            <<"w", "a", "t", "e", "r", "-", "q", "u", "a", "l", "i", "t", "y", "-",
              "s", "e", "r", "v", "i", "c", "e">>
      [] s = "billing" -> <<"b", "i", "l", "l", "i", "n", "g">>

\* strings.HasPrefix
HasPrefix(s, prefix) ==
    LET a == Chars(s)
        b == Chars(prefix)
    IN  /\ Len(b) <= Len(a)
        /\ \A i \in 1..Len(b) : a[i] = b[i]

\* discovery.go:311-316 returning true for every name
hasPrefix_IgnoresPrefix(name, prefix) == TRUE

\* discovery.go:311 hasPrefix
hasPrefix(name, prefix) ==
    IF prefix = "" THEN TRUE ELSE HasPrefix(name, prefix)

\* discovery.go:271-277: the first port named "grpc" or numbered 50051, else 0
RECURSIVE FindGrpcPort(_)
FindGrpcPort(ports) ==
    IF ports = <<>> THEN 0
    ELSE IF Head(ports).Name = "grpc" \/ Head(ports).Port = grpcDefaultPort
         THEN Head(ports).Port
         ELSE FindGrpcPort(Tail(ports))

\* discovery.go:270-282 always taking the first declared port
SelectPort_FirstPort(ports) ==
    IF Len(ports) > 0 THEN ports[1].Port ELSE 0

\* discovery.go:270-282
SelectPort(ports) ==
    LET port == FindGrpcPort(ports)
    IN  IF port = 0 /\ Len(ports) > 0 THEN ports[1].Port ELSE port

\* discovery.go:290
Endpoint(name, ns, port) ==
    name \o "." \o ns \o ".svc.cluster.local:" \o ToString(port)

\* discovery.go:259-305 without the two `continue`s for a service that declares no
\* port (lines 266-268 and 285-287)
RECURSIVE DiscoverLoop_KeepsPortless(_, _, _)
DiscoverLoop_KeepsPortless(items, prefix, ns) ==
    IF items = <<>> THEN <<>>
    ELSE LET svc  == Head(items)
             rest == DiscoverLoop_KeepsPortless(Tail(items), prefix, ns)
             port == SelectPort(svc.Ports)
         IN  IF ~hasPrefix(svc.Name, prefix) THEN rest
             ELSE <<[Name |-> svc.Name,
                     Endpoint |-> Endpoint(svc.Name, ns, port)]>> \o rest

\* discovery.go:259-305: the loop over serviceList.Items
RECURSIVE DiscoverLoop(_, _, _)
DiscoverLoop(items, prefix, ns) ==
    IF items = <<>> THEN <<>>
    ELSE LET svc  == Head(items)
             rest == DiscoverLoop(Tail(items), prefix, ns)
             port == SelectPort(svc.Ports)
         IN  IF ~hasPrefix(svc.Name, prefix) THEN rest
             ELSE IF Len(svc.Ports) = 0 THEN rest
             ELSE IF port = 0 THEN rest
             ELSE <<[Name |-> svc.Name,
                     Endpoint |-> Endpoint(svc.Name, ns, port)]>> \o rest

\* discovery.go:249 discoverServices, when the listing call succeeds
discoverServices(items) == DiscoverLoop(items, servicePrefix, namespace)

NamesOf(snap) == {snap[i].Name : i \in 1..Len(snap)}

-----------------------------------------------------------------------------
(* Goroutines *)

MainProc == <<"main", 0>>
BgProc == <<"bg", 0>>
GwProc == <<"gw", 0>>
\* the request goroutine that calls GetConnection
Caller == <<"caller", 0>>
Workers == {Caller}
RefreshProcs == {MainProc, BgProc} \cup Workers
Procs == RefreshProcs \cup {GwProc}
NoProc == <<"none", 0>>

\* make(map[string]*google_grpc.ClientConn)
NoConnections == [n \in {} |-> 0]

\* a RefreshConnections call that has not run
NoRefresh ==
    [snap |-> <<>>, err |-> FALSE, failed |-> {}, opened |-> {}]

NoCall == [name |-> "", passes |-> 0, result |-> "none", conn |-> 0]

\* no reconciliation has completed
NoLastRun == [ran |-> FALSE, snap |-> <<>>, table |-> NoConnections]

\* failed: the names whose conn.Close() fails; err: the messages of the returned
\* error ({} is nil)
NoClose == [called |-> FALSE, returned |-> FALSE, failed |-> {}, err |-> {}]


NoGateway ==
    [routes |-> {}, attempted |-> {}, snapshot |-> <<>>, regFail |-> {},
     customFail |-> {}, err |-> <<>>, setupDone |-> FALSE, serving |-> FALSE,
     health |-> FALSE, healthStatus |-> 0]

\* the state after construction of the process: nothing has run
ProgramInit ==
    /\ cluster \in ClusterCatalog
    /\ changes = 0
    /\ proc = "running"
    /\ pc = [p \in Procs |-> IF p = MainProc THEN "start"
                             ELSE IF p \in Workers THEN "idle" ELSE "off"]
    /\ services = <<>>
    /\ connections = NoConnections
    /\ conns = NoConnections
    /\ connectionsMutex = NoProc
    /\ done = FALSE
    /\ rc = [p \in RefreshProcs |-> NoRefresh]
    /\ gc = [w \in Workers |-> NoCall]
    /\ closeRes = NoClose
    /\ gw = NoGateway
    /\ lastRun = NoLastRun

\* no discoverServices call is being looked at
NoDiscover == [items |-> <<>>, prefix |-> "", called |-> FALSE, err |-> FALSE,
               services |-> <<>>]

\* no GetAllServices call is running
NoReader == [pc |-> "idle", n |-> 0, held |-> <<>>, returned |-> FALSE]

\* no upload request
\* no function is being called
NoFunctionCall == [fn |-> "", arg |-> "", called |-> FALSE, result |-> ""]

NoUpload ==
    [pc |-> "idle",
     form |-> [parseOk |-> FALSE, filename |-> "", fileType |-> "", hasFile |-> FALSE,
               data |-> <<>>],
     conn |-> FALSE, connClosed |-> FALSE, stream |-> FALSE,
     sent |-> <<>>, pos |-> 0, buffer |-> <<>>, n |-> 0, readErr |-> "nil",
     sendErr |-> "nil", recv |-> "none", statuses |-> <<>>, body |-> "",
     cancelled |-> FALSE, aborted |-> FALSE, openErr |-> "nil",
     file |-> "none", ctx |-> "none", defers |-> <<>>]

Init ==
    /\ ProgramInit
    /\ disc = NoDiscover
    /\ reader = NoReader
    /\ up = NoUpload
    /\ other = NoUpload
    /\ call = NoFunctionCall

-----------------------------------------------------------------------------
(* The connection table *)

\* kd.connections[name] = conn
Put(table, name, id) ==
    [n \in DOMAIN table \cup {name} |-> IF n = name THEN id ELSE table[n]]

\* delete(kd.connections, name) for every name of names
Delete(table, names) == [n \in DOMAIN table \ names |-> table[n]]

\* conn.Close() on every connection of ids
CloseConns(cs, ids) ==
    [i \in DOMAIN cs |-> IF i \in ids THEN [cs[i] EXCEPT !.closes = @ + 1] ELSE cs[i]]

\* the identity of the next *grpc.ClientConn: the least one not in use
NewId(cs) ==
    CHOOSE i \in 1..(Cardinality(DOMAIN cs) + 1) :
        /\ i \notin DOMAIN cs
        /\ \A j \in 1..(i - 1) : j \in DOMAIN cs

\* google_grpc.NewClient(endpoint, ...) succeeding
NewClient(cs, endpoint) ==
    [i \in DOMAIN cs \cup {NewId(cs)} |->
        IF i \in DOMAIN cs THEN cs[i] ELSE [target |-> endpoint, closes |-> 0]]

\* the objects no table entry and no caller refers to are forgotten
Collect(cs, table, calls) ==
    [i \in DOMAIN cs \cap ({table[n] : n \in DOMAIN table}
                           \cup {calls[w].conn : w \in DOMAIN calls}) |-> cs[i]]

\* discovery.go:211-232, with `break` in place of `continue` at line 220
RECURSIVE OpenLoop_Break(_, _, _)
OpenLoop_Break(svcs, st, failSet) ==
    IF svcs = <<>> THEN st
    ELSE LET service == Head(svcs)
         IN  IF service.Name \in DOMAIN st.table
             THEN OpenLoop_Break(Tail(svcs), st, failSet)
             ELSE IF service.Name \in failSet
             THEN [st EXCEPT !.failed = @ \cup {service.Name}]
             ELSE OpenLoop_Break(Tail(svcs),
                      [st EXCEPT !.table = Put(@, service.Name, NewId(st.conns)),
                                 !.conns = NewClient(@, service.Endpoint),
                                 !.opened = @ \cup {service.Name}],
                      failSet)

\* discovery.go:211-232 without the `exists` test of line 215
RECURSIVE OpenLoop_Reopen(_, _, _)
OpenLoop_Reopen(svcs, st, failSet) ==
    IF svcs = <<>> THEN st
    ELSE LET service == Head(svcs)
         IN  IF service.Name \in failSet
             THEN OpenLoop_Reopen(Tail(svcs),
                      [st EXCEPT !.failed = @ \cup {service.Name}], failSet)
             ELSE OpenLoop_Reopen(Tail(svcs),
                      [st EXCEPT !.table = Put(@, service.Name, NewId(st.conns)),
                                 !.conns = NewClient(@, service.Endpoint),
                                 !.opened = @ \cup {service.Name}],
                      failSet)

\* discovery.go:211-232: open a connection for every service of the snapshot that
\* has none; google_grpc.NewClient fails for the names of failSet.
RECURSIVE OpenLoop(_, _, _)
OpenLoop(svcs, st, failSet) ==
    IF svcs = <<>> THEN st
    ELSE LET service == Head(svcs)
         IN  IF service.Name \in DOMAIN st.table
             THEN OpenLoop(Tail(svcs), st, failSet)
             ELSE IF service.Name \in failSet
             THEN OpenLoop(Tail(svcs),
                      [st EXCEPT !.failed = @ \cup {service.Name}], failSet)
             ELSE OpenLoop(Tail(svcs),
                      [st EXCEPT !.table = Put(@, service.Name, NewId(st.conns)),
                                 !.conns = NewClient(@, service.Endpoint),
                                 !.opened = @ \cup {service.Name}],
                      failSet)

\* discovery.go:235-243: close and delete every connection whose name is not active
CloseInactive_KeepsAllWhenNoneActive(table, cs, active) ==
    LET stale == IF active = {} THEN {} ELSE DOMAIN table \ active
    IN  [table |-> Delete(table, stale),
         conns |-> CloseConns(cs, {table[n] : n \in stale}),
         closed |-> stale]

\* discovery.go:234-245 without the conn.Close() of line 238: the inactive entries
\* are only deleted
CloseInactive_DropsWithoutClose(table, cs, active) ==
    LET stale == DOMAIN table \ active
    IN  [table |-> Delete(table, stale),
         conns |-> cs,
         closed |-> stale]

\* discovery.go:234-245
CloseInactive(table, cs, active) ==
    LET stale == DOMAIN table \ active
    IN  [table |-> Delete(table, stale),
         conns |-> CloseConns(cs, {table[n] : n \in stale}),
         closed |-> stale]

\* discovery.go:175-182 returning at the first close that fails
CloseAll_StopAtFirstFailure(table, cs, failSet) ==
    IF failSet = {}
    THEN [table |-> NoConnections,
          conns |-> CloseConns(cs, {table[n] : n \in DOMAIN table}),
          attempted |-> DOMAIN table, failed |-> {}]
    ELSE LET f == CHOOSE n \in failSet : TRUE
         IN  [table |-> Delete(table, {f}),
              conns |-> CloseConns(cs, {table[f]}),
              attempted |-> {f}, failed |-> {f}]

\* discovery.go:175-182: close and delete every tracked connection; conn.Close()
\* fails for the names of failSet.
CloseAll(table, cs, failSet) ==
    [table |-> Delete(table, DOMAIN table),
     conns |-> CloseConns(cs, {table[n] : n \in DOMAIN table}),
     attempted |-> DOMAIN table,
     failed |-> failSet]

\* discovery.go:177: the message of one failed close
CloseErrMsg(name) == "failed to close connection to " \o name

-----------------------------------------------------------------------------
(* RefreshConnections, discovery.go:192-246, run by goroutine p *)

Running == proc = "running"

\* os.Exit (from Fatal) or the return of main: the goroutines and the memory of
\* the process are gone; what the run did (closeRes, gw) is kept
\* as its record
ProcessEnds(how) ==
    /\ proc' = how
    /\ pc' = [p \in Procs |-> "dead"]
    /\ services' = <<>>
    /\ connections' = NoConnections
    /\ conns' = NoConnections
    /\ connectionsMutex' = NoProc
    /\ done' = FALSE
    /\ rc' = [p \in RefreshProcs |-> NoRefresh]
    /\ gc' = [w \in Workers |-> NoCall]

\* discovery.go:193-196 and 251-254 with the snapshot and the table dropped on error
RefreshListFails_Clears(p) ==
    /\ rc' = [rc EXCEPT ![p] = [NoRefresh EXCEPT !.err = TRUE]]
    /\ pc' = [pc EXCEPT ![p] = "rc_ret"]
    /\ services' = <<>>
    /\ connections' = NoConnections
    /\ UNCHANGED conns

\* discovery.go:193-196 and 251-254: the listing call fails; the error is returned
RefreshListFails(p) ==
    /\ rc' = [rc EXCEPT ![p] = [NoRefresh EXCEPT !.err = TRUE]]
    /\ pc' = [pc EXCEPT ![p] = "rc_ret"]
    /\ UNCHANGED <<services, connections, conns>>

\* discovery.go:193: services, err := kd.discoverServices()
RefreshDiscover(p) ==
    /\ Running
    /\ pc[p] = "rc_discover"
    /\ \/ /\ rc' = [rc EXCEPT ![p] = [NoRefresh EXCEPT !.snap = discoverServices(cluster)]]
          /\ pc' = [pc EXCEPT ![p] = "rc_store"]
          /\ UNCHANGED <<services, connections, conns>>
       \/ RefreshListFails(p)
    /\ gc' = IF p \in Workers THEN [gc EXCEPT ![p].passes = @ + 1] ELSE gc
    /\ UNCHANGED <<cluster, changes, proc, connectionsMutex, done, closeRes, gw, lastRun, callVars>>

\* discovery.go:136-137 with the read lock excluding no writer
ReadLocked_Never == FALSE

\* discovery.go:136-137: a GetAllServices call holds servicesMutex.RLock from its
\* first statement to its return
ReadLocked == reader.pc \in {"copy", "ret"}

\* discovery.go:199-201: kd.services = services, under servicesMutex.Lock, which
\* waits for the read lock to be released
RefreshStore(p) ==
    /\ Running
    /\ pc[p] = "rc_store"
    /\ ~ReadLocked
    /\ services' = rc[p].snap
    /\ pc' = [pc EXCEPT ![p] = "rc_open"]
    /\ UNCHANGED <<cluster, changes, proc, connections, conns, connectionsMutex, done,
                   rc, gc, closeRes, gw, lastRun, callVars>>

\* discovery.go:204-232 without waiting for connectionsMutex
RefreshOpen_NoLock(p) ==
    /\ Running
    /\ pc[p] = "rc_open"
    /\ connectionsMutex' = p
    /\ \E failSet \in SUBSET (NamesOf(rc[p].snap) \ DOMAIN connections) :
          LET st == OpenLoop(rc[p].snap,
                             [table |-> connections, conns |-> conns,
                              failed |-> {}, opened |-> {}],
                             failSet)
          IN  /\ connections' = st.table
              /\ conns' = st.conns
              /\ rc' = [rc EXCEPT ![p].failed = st.failed,
                                  ![p].opened = st.opened]
    /\ pc' = [pc EXCEPT ![p] = "rc_close"]
    /\ UNCHANGED <<cluster, changes, proc, services, done, gc, closeRes, gw, lastRun, callVars>>

\* discovery.go:204-232: take connectionsMutex and open the missing connections
RefreshOpen(p) ==
    /\ Running
    /\ pc[p] = "rc_open"
    /\ connectionsMutex = NoProc
    /\ connectionsMutex' = p
    /\ \E failSet \in SUBSET (NamesOf(rc[p].snap) \ DOMAIN connections) :
          LET st == OpenLoop(rc[p].snap,
                             [table |-> connections, conns |-> conns,
                              failed |-> {}, opened |-> {}],
                             failSet)
          IN  /\ connections' = st.table
              /\ conns' = st.conns
              /\ rc' = [rc EXCEPT ![p].failed = st.failed,
                                  ![p].opened = st.opened]
    /\ pc' = [pc EXCEPT ![p] = "rc_close"]
    /\ UNCHANGED <<cluster, changes, proc, services, done, gc, closeRes, gw, lastRun, callVars>>

\* discovery.go:234-245 returning without the deferred Unlock of line 205
RefreshCloseInactive_KeepsLock(p) ==
    /\ Running
    /\ pc[p] = "rc_close"
    /\ connectionsMutex = p
    /\ LET r == CloseInactive(connections, conns, NamesOf(rc[p].snap))
       IN  /\ connections' = r.table
           /\ conns' = r.conns
           /\ lastRun' = [ran |-> TRUE, snap |-> rc[p].snap, table |-> r.table]
    /\ connectionsMutex' = p
    /\ pc' = [pc EXCEPT ![p] = "rc_ret"]
    /\ UNCHANGED <<cluster, changes, proc, services, done, rc, gc, closeRes, gw,
                   callVars>>

\* discovery.go:234-245: close the inactive connections, return nil (the deferred
\* Unlock of line 205 runs)
RefreshCloseInactive(p) ==
    /\ Running
    /\ pc[p] = "rc_close"
    /\ connectionsMutex = p
    /\ LET r == CloseInactive(connections, conns, NamesOf(rc[p].snap))
       IN  /\ connections' = r.table
           /\ conns' = r.conns
           /\ lastRun' = [ran |-> TRUE, snap |-> rc[p].snap, table |-> r.table]
    /\ connectionsMutex' = NoProc
    /\ pc' = [pc EXCEPT ![p] = "rc_ret"]
    /\ UNCHANGED <<cluster, changes, proc, services, done, rc, gc, closeRes, gw,
                   callVars>>

-----------------------------------------------------------------------------
(* NewKubernetesDiscovery, discovery.go:67-112, and the background refresher *)

\* discovery.go:103-104 returning the error of the initial discovery to main,
\* whose appLogger.Fatal ends the process
NewDiscoveryFinish_Fatal ==
    IF rc[MainProc].err
    THEN /\ ProcessEnds("fatal")
         /\ UNCHANGED gw
    ELSE /\ pc' = [pc EXCEPT ![MainProc] = "wait_signal", ![BgProc] = "wait",
                        ![GwProc] = "setup"]
         /\ rc' = [rc EXCEPT ![MainProc] = NoRefresh]
         /\ conns' = Collect(conns, connections, gc)
         /\ UNCHANGED <<proc, services, connections, connectionsMutex, done, gc, gw>>

\* discovery.go:103-111: a failed initial discovery is logged ("Don't fail
\* initialization, allow retry"), the refresher is started, kd is returned; main
\* (part_004:55-67) builds the Gateway and starts gw.Start in its goroutine
NewDiscoveryFinish ==
    /\ pc' = [pc EXCEPT ![MainProc] = "wait_signal", ![BgProc] = "wait",
                        ![GwProc] = "setup"]
    /\ rc' = [rc EXCEPT ![MainProc] = NoRefresh]
    /\ conns' = Collect(conns, connections, gc)
    /\ UNCHANGED <<proc, services, connections, connectionsMutex, done, gc, gw>>

\* part_004:47-67 with gw.Start launched before NewKubernetesDiscovery has run
NewDiscoveryBegin_GatewayFirst ==
    /\ Running
    /\ pc[MainProc] = "start"
    /\ pc' = [pc EXCEPT ![MainProc] = "rc_discover", ![GwProc] = "setup"]
    /\ UNCHANGED <<proc, services, connections, conns, connectionsMutex, done,
                   rc, gc>>
    /\ UNCHANGED <<cluster, changes, closeRes, gw, lastRun, callVars>>

\* discovery.go:83-103: build the client, begin the initial RefreshConnections;
\* a client that cannot be built is returned as an error (fatal in main)
NewDiscoveryBegin ==
    /\ Running
    /\ pc[MainProc] = "start"
    /\ \/ /\ pc' = [pc EXCEPT ![MainProc] = "rc_discover"]
          /\ UNCHANGED <<proc, services, connections, conns, connectionsMutex, done,
                         rc, gc>>
       \/ ProcessEnds("fatal")
    /\ UNCHANGED <<cluster, changes, closeRes, gw, lastRun, callVars>>

NewDiscoveryReturn ==
    /\ Running
    /\ pc[MainProc] = "rc_ret"
    /\ NewDiscoveryFinish
    /\ UNCHANGED <<cluster, changes, closeRes, lastRun, callVars>>

\* discovery.go:123-124: the ticker fires
BackgroundTick ==
    /\ Running
    /\ pc[BgProc] = "wait"
    /\ pc' = [pc EXCEPT ![BgProc] = "rc_discover"]
    /\ UNCHANGED <<cluster, changes, proc, services, connections, conns,
                   connectionsMutex, done, rc, gc, closeRes, gw,
                   lastRun, callVars>>

\* discovery.go:124-126: back to the select, an error only logged
BackgroundRefreshReturn ==
    /\ Running
    /\ pc[BgProc] = "rc_ret"
    /\ pc' = [pc EXCEPT ![BgProc] = "wait"]
    /\ rc' = [rc EXCEPT ![BgProc] = NoRefresh]
    /\ conns' = Collect(conns, connections, gc)
    /\ UNCHANGED <<cluster, changes, proc, services, connections,
                   connectionsMutex, done, gc, closeRes, gw, lastRun, callVars>>

\* discovery.go:127-129: kd.done is closed
BackgroundStop ==
    /\ Running
    /\ pc[BgProc] = "wait"
    /\ done
    /\ pc' = [pc EXCEPT ![BgProc] = "stopped"]
    /\ UNCHANGED <<cluster, changes, proc, services, connections, conns,
                   connectionsMutex, done, rc, gc, closeRes, gw,
                   lastRun, callVars>>

-----------------------------------------------------------------------------
(* GetConnection, discovery.go:145-164, called by request goroutine w *)

Constructed ==
    pc[MainProc] \in {"wait_signal", "close_all", "close_ret", "closed"}

\* discovery.go:153-161 trying again while the name is missing
GetConnectionRecheck_Retry(w) ==
    IF gc[w].name \in DOMAIN connections
    THEN /\ gc' = [gc EXCEPT ![w].result = "conn", ![w].conn = connections[gc[w].name]]
         /\ pc' = [pc EXCEPT ![w] = "idle"]
    ELSE /\ gc' = gc
         /\ pc' = [pc EXCEPT ![w] = "rc_discover"]

\* discovery.go:156-163: look up again; the connection, or "not found after refresh"
GetConnectionRecheck(w) ==
    /\ pc' = [pc EXCEPT ![w] = "idle"]
    /\ gc' = [gc EXCEPT ![w].result =
                            IF gc[w].name \in DOMAIN connections
                            THEN "conn" ELSE "not_found",
                        ![w].conn =
                            IF gc[w].name \in DOMAIN connections
                            THEN connections[gc[w].name] ELSE 0]

\* discovery.go:146-152: look the name up under the read lock; a hit returns the
\* connection, a miss starts RefreshConnections
GetConnectionCall(w) ==
    /\ Running
    /\ Constructed
    /\ pc[w] = "idle"
    /\ connectionsMutex = NoProc
    /\ \E name \in QueryNames :
          IF name \in DOMAIN connections
          THEN /\ gc' = [gc EXCEPT ![w] = [name |-> name, passes |-> 0,
                                           result |-> "conn",
                                           conn |-> connections[name]]]
               /\ pc' = pc
          ELSE /\ gc' = [gc EXCEPT ![w] = [name |-> name, passes |-> 0,
                                           result |-> "pending", conn |-> 0]]
               /\ pc' = [pc EXCEPT ![w] = "rc_discover"]
    /\ conns' = Collect(conns, connections, gc')
    /\ UNCHANGED <<cluster, changes, proc, services, connections,
                   connectionsMutex, done, rc, closeRes, gw,
                   lastRun, callVars>>

\* discovery.go:153-155: RefreshConnections returned an error, which is returned
GetConnectionRefreshFailed(w) ==
    /\ Running
    /\ pc[w] = "rc_ret"
    /\ rc[w].err
    /\ gc' = [gc EXCEPT ![w].result = "refresh_error"]
    /\ pc' = [pc EXCEPT ![w] = "idle"]
    /\ rc' = [rc EXCEPT ![w] = NoRefresh]
    /\ UNCHANGED <<cluster, changes, proc, services, connections, conns,
                   connectionsMutex, done, closeRes, gw,
                   lastRun, callVars>>

\* discovery.go:156-163: RefreshConnections returned nil
GetConnectionAfterRefresh(w) ==
    /\ Running
    /\ pc[w] = "rc_ret"
    /\ ~rc[w].err
    /\ connectionsMutex = NoProc
    /\ GetConnectionRecheck(w)
    /\ rc' = [rc EXCEPT ![w] = NoRefresh]
    /\ conns' = Collect(conns, connections, gc')
    /\ UNCHANGED <<cluster, changes, proc, services, connections,
                   connectionsMutex, done, closeRes, gw, lastRun, callVars>>

-----------------------------------------------------------------------------
(* Close, discovery.go:167-189, deferred by main *)

\* discovery.go:171-186: under connectionsMutex close every connection and collect
\* the errors
CloseConnections ==
    /\ Running
    /\ pc[MainProc] = "close_all"
    /\ connectionsMutex = NoProc
    /\ connectionsMutex' = MainProc
    /\ \E failSet \in SUBSET DOMAIN connections :
          LET r == CloseAll(connections, conns, failSet)
          IN  /\ connections' = r.table
              /\ conns' = r.conns
              /\ closeRes' = [closeRes EXCEPT !.failed = failSet,
                                              !.err = {CloseErrMsg(n) : n \in r.failed}]
    /\ pc' = [pc EXCEPT ![MainProc] = "close_ret"]
    /\ UNCHANGED <<cluster, changes, proc, services, done, rc, gc, gw, lastRun, callVars>>

\* discovery.go:184-188: return the error or nil; the deferred Unlock runs, and
\* main (part_004:52, a bare defer) drops the value
CloseReturn ==
    /\ Running
    /\ pc[MainProc] = "close_ret"
    /\ connectionsMutex = MainProc
    /\ connectionsMutex' = NoProc
    /\ closeRes' = [NoClose EXCEPT !.called = TRUE, !.returned = TRUE]
    /\ pc' = [pc EXCEPT ![MainProc] = "closed"]
    /\ conns' = Collect(conns, connections, gc)
    /\ UNCHANGED <<cluster, changes, proc, services, connections, done, rc, gc,
                   gw, lastRun, callVars>>

-----------------------------------------------------------------------------
(* Gateway.setupHandlers and Gateway.Start, internal/gateway *)

\* strings.ToLower on the names the control plane can hold (lower-case DNS labels)
\* and on their capitalised spellings
ToLower(name) ==
    CASE name = "User-Service" -> "user-service"
      [] name = "USER" -> "user"
      [] name = "Water-Quality-Service" -> "water-quality-service"
      [] OTHER -> name

\* the switch of setupHandlers: which registration routine a name selects
ServiceKind(name) ==
    CASE ToLower(name) \in {"user", "user-service"} -> "user"
      [] ToLower(name) \in {"water-quality", "water-quality-service"} -> "water-quality"
      [] OTHER -> "unknown"

NoError == ""

\* setupUserServiceHandlers: RegisterUserServiceHandlerFromEndpoint fails for the
\* names of regFail
setupUserServiceHandlers(service, regFail) ==
    IF service.Name \in regFail
    THEN [routes |-> {},
          err |-> "failed to register user service handler from endpoint "
                  \o service.Endpoint]
    ELSE [routes |-> {"user"}, err |-> NoError]

\* registerWaterQualityCustomHandlers, binaryFileHanlder.go:77-97: mux.HandlePath
\* fails for the names of customFail
registerWaterQualityCustomHandlers(service, customFail) ==
    IF service.Endpoint = ""
    THEN [routes |-> {},
          err |-> "cannot register custom handlers: endpoint missing for service "
                  \o service.Name]
    ELSE IF service.Name \in customFail
    THEN [routes |-> {},
          err |-> "failed to register custom handler for path "
                  \o "/api/v1/water-quality/upload on service " \o service.Name]
    ELSE [routes |-> {"water-quality/upload"}, err |-> NoError]

\* setupWaterQualityServiceHandlers: the standard registration, then the custom one
setupWaterQualityServiceHandlers(service, regFail, customFail) ==
    LET stdErr == IF service.Name \in regFail
                  THEN "standard water quality registration failed for "
                       \o service.Endpoint
                  ELSE NoError
        stdRoutes == IF service.Name \in regFail THEN {} ELSE {"water-quality"}
        custom == registerWaterQualityCustomHandlers(service, customFail)
    IN  IF custom.err # NoError
        THEN [routes |-> stdRoutes,
              err |-> IF stdErr # NoError
                      THEN "standard handler error: " \o stdErr
                           \o "; custom handler error: " \o custom.err
                      ELSE "failed to register custom water quality service handlers: "
                           \o custom.err]
        ELSE [routes |-> stdRoutes \cup custom.routes, err |-> stdErr]

\* one iteration of the loop of setupHandlers in which a name without a
\* registration routine is reported as a failure
SetupOne_UnknownIsAnError(service, regFail, customFail) ==
    CASE ServiceKind(service.Name) = "user" ->
            setupUserServiceHandlers(service, regFail)
      [] ServiceKind(service.Name) = "water-quality" ->
            setupWaterQualityServiceHandlers(service, regFail, customFail)
      [] OTHER -> [routes |-> {}, err |-> "unknown service " \o service.Name]

\* one iteration of the loop of setupHandlers: the switch on the lower-cased name
SetupOne(service, regFail, customFail) ==
    CASE ServiceKind(service.Name) = "user" ->
            setupUserServiceHandlers(service, regFail)
      [] ServiceKind(service.Name) = "water-quality" ->
            setupWaterQualityServiceHandlers(service, regFail, customFail)
      [] OTHER -> [routes |-> {}, err |-> NoError]

\* the message setupHandlers collects for one failed service
SetupErrMsg(name, err) == "failed to setup " \o name \o ": " \o err

\* the loop of setupHandlers returning at the first failed registration
RECURSIVE SetupLoop_ShortCircuit(_, _, _, _)
SetupLoop_ShortCircuit(svcs, acc, regFail, customFail) ==
    IF svcs = <<>> THEN acc
    ELSE LET service == Head(svcs)
             r == SetupOne(service, regFail, customFail)
             attempted == IF ServiceKind(service.Name) = "unknown"
                          THEN acc.attempted
                          ELSE acc.attempted \cup {service.Name}
         IN  IF r.err # NoError
             THEN [routes |-> acc.routes \cup r.routes,
                   attempted |-> attempted,
                   errors |-> Append(acc.errors, SetupErrMsg(service.Name, r.err))]
             ELSE SetupLoop_ShortCircuit(Tail(svcs),
                      [routes |-> acc.routes \cup r.routes,
                       attempted |-> attempted,
                       errors |-> acc.errors],
                      regFail, customFail)

\* the loop of setupHandlers: every service is attempted, every failure collected
RECURSIVE SetupLoop(_, _, _, _)
SetupLoop(svcs, acc, regFail, customFail) ==
    IF svcs = <<>> THEN acc
    ELSE LET service == Head(svcs)
             r == SetupOne(service, regFail, customFail)
         IN  SetupLoop(Tail(svcs),
                 [routes |-> acc.routes \cup r.routes,
                  attempted |-> IF ServiceKind(service.Name) = "unknown"
                                THEN acc.attempted
                                ELSE acc.attempted \cup {service.Name},
                  errors |-> IF r.err # NoError
                             THEN Append(acc.errors, SetupErrMsg(service.Name, r.err))
                             ELSE acc.errors],
                 regFail, customFail)

\* setupHandlers: <<>> is nil, otherwise the summary followed by every failure
setupHandlers(snap, routes, regFail, customFail) ==
    LET r == SetupLoop(snap, [routes |-> routes, attempted |-> {}, errors |-> <<>>],
                       regFail, customFail)
    IN  [routes |-> r.routes,
         attempted |-> r.attempted,
         err |-> IF Len(r.errors) > 0
                 THEN <<"failed to register one or more service handlers">> \o r.errors
                 ELSE <<>>]

\* the names of snap that select a registration routine
KnownNames(snap) == {n \in NamesOf(snap) : ServiceKind(n) # "unknown"}

\* gateway.go:137-139 and main (part_004:63-67): Start runs setupHandlers on a copy
\* of the snapshot; an error is returned to main's goroutine, which calls Fatal
GatewaySetupHandlers ==
    /\ Running
    /\ pc[GwProc] = "setup"
    /\ \E regFail \in SUBSET KnownNames(services) :
       \E customFail \in SUBSET {n \in KnownNames(services) :
                                    ServiceKind(n) = "water-quality"} :
          LET r == setupHandlers(services, gw.routes, regFail, customFail)
          IN  /\ gw' = [gw EXCEPT !.routes = r.routes, !.attempted = r.attempted,
                                  !.snapshot = services, !.regFail = regFail,
                                  !.customFail = customFail, !.err = r.err,
                                  !.setupDone = TRUE]
              /\ IF r.err # <<>>
                 THEN ProcessEnds("fatal")
                 ELSE /\ pc' = [pc EXCEPT ![GwProc] = "listen"]
                      /\ UNCHANGED <<proc, services, connections, conns,
                                     connectionsMutex, done, rc, gc>>
    /\ UNCHANGED <<cluster, changes, closeRes, lastRun, callVars>>

\* gateway.go:162-167: the health route, then app.Listen (whose failure is fatal)
GatewayListen ==
    /\ Running
    /\ pc[GwProc] = "listen"
    /\ \/ /\ gw' = [NoGateway EXCEPT !.routes = gw.routes, !.setupDone = TRUE,
                                      !.health = TRUE, !.serving = TRUE]
          /\ pc' = [pc EXCEPT ![GwProc] = "serving"]
          /\ UNCHANGED <<proc, services, connections, conns, connectionsMutex, done,
                         rc, gc>>
       \/ /\ gw' = [NoGateway EXCEPT !.routes = gw.routes, !.setupDone = TRUE,
                                      !.health = TRUE]
          /\ ProcessEnds("fatal")
    /\ UNCHANGED <<cluster, changes, closeRes, lastRun, callVars>>

-----------------------------------------------------------------------------
(* main, part_004 *)

\* part_004:74-85: the signal arrives, gw.Shutdown; its failure is fatal, otherwise
\* main returns and the deferred discovery.Close() begins with close(kd.done)
\* (discovery.go:169)
MainShutdown ==
    /\ Running
    /\ pc[MainProc] = "wait_signal"
    /\ \/ /\ gw' = [gw EXCEPT !.serving = FALSE]
          /\ pc' = [pc EXCEPT ![MainProc] = "close_all",
                              ![GwProc] = IF pc[GwProc] = "serving"
                                          THEN "stopped" ELSE @]
          /\ done' = TRUE
          /\ closeRes' = [closeRes EXCEPT !.called = TRUE]
          /\ UNCHANGED <<proc, services, connections, conns, connectionsMutex,
                         rc, gc>>
       \/ /\ ProcessEnds("fatal")
          /\ UNCHANGED <<gw, closeRes>>
    /\ UNCHANGED <<cluster, changes, lastRun, callVars>>

\* part_004:87-88: main returns
MainExit ==
    /\ Running
    /\ pc[MainProc] = "closed"
    /\ ProcessEnds("exited")
    /\ UNCHANGED <<cluster, changes, closeRes, gw, lastRun, callVars>>

-----------------------------------------------------------------------------
(* The cluster *)

\* services are added to and removed from the namespace
ClusterChange ==
    /\ Running
    /\ changes < MaxChanges
    /\ \E c \in ClusterCatalog \ {cluster} : cluster' = c
    /\ changes' = changes + 1
    /\ UNCHANGED <<proc, pc, services, connections, conns, connectionsMutex, done,
                   rc, gc, closeRes, gw, lastRun, callVars>>

-----------------------------------------------------------------------------

\* The gateway program as main wires it: the discovery component with its
\* background refresher, the Gateway reading its snapshot, and the cluster. (No
\* code of the program calls GetConnection.)
Next ==
    \/ NewDiscoveryBegin
    \/ NewDiscoveryReturn
    \/ \E p \in {MainProc, BgProc} : RefreshDiscover(p)
    \/ \E p \in {MainProc, BgProc} : RefreshStore(p)
    \/ \E p \in {MainProc, BgProc} : RefreshOpen(p)
    \/ \E p \in {MainProc, BgProc} : RefreshCloseInactive(p)
    \/ BackgroundTick
    \/ BackgroundRefreshReturn
    \/ BackgroundStop
    \/ CloseConnections
    \/ CloseReturn
    \/ GatewaySetupHandlers
    \/ GatewayListen
    \/ MainShutdown
    \/ MainExit
    \/ ClusterChange

Spec == Init /\ [][Next]_vars

\* The discovery component while main waits for its signal: a request goroutine
\* calls GetConnection while the background refresher runs and the cluster
\* changes. (GetConnection is public but no code of the program calls it; the
\* Gateway's own steps write none of the component's state.)
DiscoveryNext ==
    \/ NewDiscoveryBegin
    \/ NewDiscoveryReturn
    \/ \E p \in RefreshProcs : RefreshDiscover(p)
    \/ \E p \in RefreshProcs : RefreshStore(p)
    \/ \E p \in RefreshProcs : RefreshOpen(p)
    \/ \E p \in RefreshProcs : RefreshCloseInactive(p)
    \/ BackgroundTick
    \/ BackgroundRefreshReturn
    \/ \E w \in Workers : GetConnectionCall(w)
    \/ \E w \in Workers : GetConnectionRefreshFailed(w)
    \/ \E w \in Workers : GetConnectionAfterRefresh(w)
    \/ ClusterChange

SpecDiscovery == Init /\ [][DiscoveryNext]_vars

-----------------------------------------------------------------------------
(* Properties of RefreshConnections *)

\* the descriptor of name n in snapshot snap
DescriptorOf(snap, n) == snap[CHOOSE i \in 1..Len(snap) : snap[i].Name = n]

\* C1: one RefreshConnections call with a listed snapshot S on a table T. The
\* opening loop handles every name of S missing from T, a failed open stopping
\* nothing: each such name is either opened (a fresh connection to its endpoint is
\* put in the table) or failed (left absent), and the entries of T are untouched.
\* The closing loop then closes and removes every name of T that is not in S, so
\* that the resulting key set is exactly (names of S) minus (names whose open
\* failed).
C1_ReconcilePostcondition ==
    [][\A p \in RefreshProcs :
          /\ (pc[p] = "rc_open" /\ pc'[p] = "rc_close") =>
                LET S == NamesOf(rc[p].snap)
                    T == DOMAIN connections
                IN  /\ rc'[p].opened \cup rc'[p].failed = S \ T
                    /\ rc'[p].opened \cap rc'[p].failed = {}
                    /\ DOMAIN connections' = T \cup rc'[p].opened
                    /\ \A n \in T : connections'[n] = connections[n]
                    /\ \A i \in DOMAIN conns : conns'[i] = conns[i]
                    /\ \A n \in rc'[p].opened :
                          /\ connections'[n] \notin DOMAIN conns
                          /\ conns'[connections'[n]] =
                                [target |-> DescriptorOf(rc[p].snap, n).Endpoint,
                                 closes |-> 0]
          /\ (pc[p] = "rc_close" /\ pc'[p] = "rc_ret") =>
                LET S == NamesOf(rc[p].snap)
                    T == DOMAIN connections \ rc[p].opened
                IN  /\ \A n \in (S \ T) \ rc[p].failed : n \in DOMAIN connections'
                    /\ \A n \in rc[p].failed : n \notin DOMAIN connections'
                    /\ \A n \in T \ S :
                          /\ n \notin DOMAIN connections'
                          /\ conns'[connections[n]].closes =
                                conns[connections[n]].closes + 1
                    /\ \A n \in DOMAIN connections' :
                          /\ connections'[n] = connections[n]
                          /\ conns'[connections'[n]] = conns[connections[n]]
                    /\ DOMAIN connections' = S \ rc[p].failed]_vars

\* C1 witness: a refresh of the table {water-quality-service} with the snapshot
\* <<billing, user-service>> has returned: the open of billing failed, user-service
\* (after it in the snapshot) was opened, water-quality-service was closed and
\* removed.
C1_Witness ==
    /\ pc[BgProc] = "rc_ret"
    /\ ~rc[BgProc].err
    /\ rc[BgProc].failed = {"billing"}
    /\ rc[BgProc].opened = {"user-service"}
    /\ DOMAIN connections = {"user-service"}
    /\ \E i \in DOMAIN conns :
          /\ conns[i].closes = 1
          /\ conns[i].target = Endpoint("water-quality-service", namespace, 7000)

\* The discovery component in a cluster where every connection open succeeds:
\* DiscoveryNext with google_grpc.NewClient never returning an error.
OpensSucceedNext ==
    \/ NewDiscoveryBegin
    \/ NewDiscoveryReturn
    \/ \E p \in RefreshProcs : RefreshDiscover(p)
    \/ \E p \in RefreshProcs : RefreshStore(p)
    \/ \E p \in RefreshProcs : RefreshOpen(p) /\ rc'[p].failed = {}
    \/ \E p \in RefreshProcs : RefreshCloseInactive(p)
    \/ BackgroundTick
    \/ BackgroundRefreshReturn
    \/ \E w \in Workers : GetConnectionCall(w)
    \/ \E w \in Workers : GetConnectionRefreshFailed(w)
    \/ \E w \in Workers : GetConnectionAfterRefresh(w)
    \/ ClusterChange

SpecOpensSucceed == Init /\ [][OpensSucceedNext]_vars

\* no RefreshConnections call is running: the constructor has returned, the
\* background refresher waits for its ticker, the request goroutine is between calls
NoPassInProgress ==
    /\ Running
    /\ pc[MainProc] = "wait_signal"
    /\ pc[BgProc] = "wait"
    /\ \A w \in Workers : pc[w] = "idle"

\* C2: whenever no refresh pass is in progress (and every open has succeeded), the
\* connection table has an entry for a name exactly when the stored snapshot lists
\* the name, whatever the interleaving of the refresher's and the callers' passes.
C2_TableAgreesWithSnapshot ==
    NoPassInProgress => DOMAIN connections = NamesOf(services)

-----------------------------------------------------------------------------
(* Reconciliation run twice *)

\* the pass of p, about to run its opening loop, is a second reconciliation in a
\* row: it has the snapshot of the last completed reconciliation and it finds the
\* table that reconciliation left
SecondRunOpens(p) ==
    /\ pc[p] = "rc_open"
    /\ pc'[p] = "rc_close"
    /\ lastRun.ran
    /\ rc[p].snap = lastRun.snap
    /\ connections = lastRun.table

\* the same pass, about to run its closing loop (it has held connectionsMutex
\* since its opening loop)
SecondRunCloses(p) ==
    /\ pc[p] = "rc_close"
    /\ pc'[p] = "rc_ret"
    /\ lastRun.ran
    /\ rc[p].snap = lastRun.snap
    /\ Delete(connections, rc[p].opened) = lastRun.table

\* the names whose open failed in the last completed reconciliation
FailedInLastRun == NamesOf(lastRun.snap) \ DOMAIN lastRun.table

\* C3 as stated: a second reconciliation in a row opens no connection, closes no
\* connection and leaves the table of the first.
C3_SecondRunChangesNothing ==
    [][\A p \in RefreshProcs :
          /\ SecondRunOpens(p) =>
                /\ connections' = lastRun.table
                /\ conns' = conns
          /\ SecondRunCloses(p) =>
                /\ connections' = lastRun.table
                /\ conns' = conns]_vars

\* C3 amended: a second reconciliation in a row closes nothing and keeps every
\* entry of the first; the only connections it opens are for names whose open
\* failed in the first run (it tries each of them again), so it leaves the same
\* table and opens nothing when no open failed in the first run.
C3_SecondRunOnlyRetriesFailedOpens ==
    [][\A p \in RefreshProcs :
          /\ SecondRunOpens(p) =>
                /\ \A i \in DOMAIN conns : conns'[i] = conns[i]
                /\ \A n \in DOMAIN lastRun.table :
                      /\ n \in DOMAIN connections'
                      /\ connections'[n] = lastRun.table[n]
                /\ DOMAIN connections' \ DOMAIN connections = rc'[p].opened
                /\ rc'[p].opened \cup rc'[p].failed = FailedInLastRun
                /\ (FailedInLastRun = {} =>
                      /\ connections' = lastRun.table
                      /\ conns' = conns)
          /\ SecondRunCloses(p) =>
                /\ conns' = conns
                /\ connections' = connections
                /\ DOMAIN connections' = DOMAIN lastRun.table \cup rc[p].opened
                /\ (FailedInLastRun = {} => connections' = lastRun.table)]_vars

\* C3 witness: the second of two reconciliations in a row has returned: it kept
\* the entry the first had left (user-service) and tried again the name whose open
\* the first had failed (water-quality-service), which failed again.
C3_Witness ==
    /\ pc[BgProc] = "rc_ret"
    /\ lastRun.ran
    /\ rc[BgProc].snap = lastRun.snap
    /\ connections = lastRun.table
    /\ DOMAIN connections = {"user-service"}
    /\ rc[BgProc].failed = {"water-quality-service"}
    /\ rc[BgProc].opened = {}

-----------------------------------------------------------------------------
(* Properties of the Gateway's start *)

\* the routes the registration routines of a service put on gwMux
RoutesOf(name) ==
    CASE ServiceKind(name) = "user" -> {"user"}
      [] ServiceKind(name) = "water-quality" -> {"water-quality", "water-quality/upload"}
      [] OTHER -> {}

\* the services of snap whose registration fails when the standard registration
\* fails for regFail and the custom one for customFail
FailedNames(snap, regFail, customFail) ==
    {n \in KnownNames(snap) :
        \/ n \in regFail
        \/ ServiceKind(n) = "water-quality" /\ n \in customFail}

\* the error err of setupHandlers contains the failure of service n of snap
Mentions(err, snap, n, regFail, customFail) ==
    \E i \in 1..Len(err) :
        err[i] = SetupErrMsg(n, SetupOne(DescriptorOf(snap, n), regFail, customFail).err)

\* C4: once the gateway serves and a background tick has completed its refresh,
\* every known service of the stored snapshot has its routes on the multiplexer
\* (the tick having re-run the registration).
C4_RoutesFollowMembership ==
    (Running /\ gw.serving /\ pc[BgProc] = "rc_ret" /\ ~rc[BgProc].err) =>
        \A n \in KnownNames(services) : RoutesOf(n) \subseteq gw.routes

\* C5: when at startup service a registers and service b's registration fails,
\* setupHandlers' error mentions b and the gateway goes on to serve (the process
\* does not end).
C5_PartialRegistrationServes ==
    \A a, b \in KnownNames(gw.snapshot) :
        (/\ gw.setupDone
         /\ a \notin FailedNames(gw.snapshot, gw.regFail, gw.customFail)
         /\ b \in FailedNames(gw.snapshot, gw.regFail, gw.customFail)) =>
            /\ Mentions(gw.err, gw.snapshot, b, gw.regFail, gw.customFail)
            /\ proc = "running"

\* C6: setupHandlers attempts the registration of every service of the snapshot
\* that has a registration routine, whatever failed before it; it returns nil
\* exactly when no registration failed, and otherwise one error made of the summary
\* and the failure of each service whose registration failed.
C6_AggregatedRegistration ==
    gw.setupDone =>
        LET failed == FailedNames(gw.snapshot, gw.regFail, gw.customFail)
        IN  /\ gw.attempted = KnownNames(gw.snapshot)
            /\ (gw.err = <<>>) <=> (failed = {})
            /\ failed # {} => Len(gw.err) = 1 + Cardinality(failed)
            /\ \A n \in failed :
                  Mentions(gw.err, gw.snapshot, n, gw.regFail, gw.customFail)

\* C6 witness: setupHandlers has run on <<user-service, water-quality-service>>:
\* the registration of user-service failed, water-quality-service after it was
\* still attempted and registered, and the error holds the one failure.
C6_Witness ==
    /\ gw.setupDone
    /\ NamesOf(gw.snapshot) = {"user-service", "water-quality-service"}
    /\ gw.regFail = {"user-service"}
    /\ gw.customFail = {}
    /\ "water-quality-service" \in gw.attempted
    /\ RoutesOf("water-quality-service") \subseteq gw.routes
    /\ Len(gw.err) = 2

-----------------------------------------------------------------------------
(* Properties of the component's construction *)

\* main leaves the initial RefreshConnections whose listing call failed
InitialDiscoveryFailed ==
    /\ pc[MainProc] = "rc_ret"
    /\ rc[MainProc].err
    /\ pc'[MainProc] # "rc_ret"

C8_ListFailureChangesNothing ==
    [][\A p \in RefreshProcs :
          /\ (pc[p] = "rc_discover" /\ pc'[p] = "rc_ret") =>
                /\ rc'[p].err
                /\ services' = services
                /\ connections' = connections
                /\ conns' = conns
          /\ (pc[p] = "rc_discover" /\ pc'[p] = "rc_store") => ~rc'[p].err]_vars

\* C8 witness: a background refresh has returned an error while a snapshot is
\* stored and connections are tracked.
C8_Witness ==
    /\ pc[BgProc] = "rc_ret"
    /\ rc[BgProc].err
    /\ services # <<>>
    /\ connections # NoConnections

-----------------------------------------------------------------------------
(* Properties of GetConnection and Close *)

\* the first lookup of GetConnection: a hit returns the tracked connection and
\* runs no pass, a miss starts a pass
FirstLookup(w) ==
    /\ (pc[w] = "idle" /\ pc'[w] = "idle" /\ gc'[w] # gc[w]) =>
          /\ gc'[w].name \in DOMAIN connections
          /\ gc'[w].result = "conn"
          /\ gc'[w].conn = connections[gc'[w].name]
          /\ gc'[w].passes = 0
    /\ (pc[w] = "idle" /\ pc'[w] = "rc_discover") =>
          /\ gc'[w].name \notin DOMAIN connections
          /\ gc'[w].passes = 0

\* a call never starts a second pass
OnePass(w) ==
    /\ gc'[w].passes <= 1
    /\ pc[w] = "rc_ret" => pc'[w] \in {"rc_ret", "idle"}

\* C9 as stated: a hit returns the tracked connection without a pass; a miss runs
\* exactly one pass and then returns the connection if the name is now in the
\* table and the not-found error otherwise.
C9_MissReturnsConnectionOrNotFound ==
    [][\A w \in Workers :
          /\ FirstLookup(w)
          /\ OnePass(w)
          /\ (pc[w] = "rc_ret" /\ pc'[w] = "idle") =>
                /\ gc'[w].passes = 1
                /\ IF gc[w].name \in DOMAIN connections
                   THEN /\ gc'[w].result = "conn"
                        /\ gc'[w].conn = connections[gc[w].name]
                   ELSE gc'[w].result = "not_found"]_vars

\* C9 amended: a hit returns the tracked connection without a pass; a miss runs
\* exactly one pass; if its listing call failed the call returns that refresh
\* error without looking the name up again (even when the name is in the table
\* by then); otherwise it returns the connection if the name is now in the table
\* and the not-found error if it is not. There is never a second pass.
C9_MissRunsOnePass ==
    [][\A w \in Workers :
          /\ FirstLookup(w)
          /\ OnePass(w)
          /\ (pc[w] = "rc_ret" /\ pc'[w] = "idle") =>
                /\ gc'[w].passes = 1
                /\ IF rc[w].err
                   THEN /\ gc'[w].result = "refresh_error"
                        /\ gc'[w].conn = 0
                   ELSE IF gc[w].name \in DOMAIN connections
                   THEN /\ gc'[w].result = "conn"
                        /\ gc'[w].conn = connections[gc[w].name]
                   ELSE gc'[w].result = "not_found"]_vars

\* C9 witness: a call that missed has returned after its one pass, whose listing
\* call failed: it returned the refresh error although the background refresher
\* had put the name in the table meanwhile.
C9_Witness ==
    /\ pc[Caller] = "idle"
    /\ gc[Caller].passes = 1
    /\ gc[Caller].result = "refresh_error"
    /\ gc[Caller].name \in DOMAIN connections

\* C10: Close calls Close on every connection tracked when it runs, whichever of
\* them fail; the error it returns lists exactly the closes that failed (nil when
\* none did); the table is empty when it returns.
C10_CloseIsTotal ==
    [][/\ (pc[MainProc] = "close_all" /\ pc'[MainProc] = "close_ret") =>
             /\ \A n \in DOMAIN connections :
                   conns'[connections[n]].closes = conns[connections[n]].closes + 1
             /\ connections' = NoConnections
             /\ closeRes'.failed \subseteq DOMAIN connections
             /\ closeRes'.err = {CloseErrMsg(n) : n \in closeRes'.failed}
             /\ (closeRes'.err = {}) <=> (closeRes'.failed = {})
       /\ (pc[MainProc] = "close_ret" /\ pc'[MainProc] = "closed") =>
             /\ connections = NoConnections
             /\ connections' = NoConnections
             /\ closeRes'.returned]_vars

\* C10 witness: Close has run on a table of two connections, the first close
\* failing: both connections were closed, the error lists the one failure, the
\* table is empty.
C10_Witness ==
    /\ pc[MainProc] = "close_ret"
    /\ closeRes.failed = {"billing"}
    /\ closeRes.err = {CloseErrMsg("billing")}
    /\ connections = NoConnections
    /\ Cardinality({i \in DOMAIN conns : conns[i].closes = 1}) = 2

-----------------------------------------------------------------------------
(* discoverServices, discovery.go:249-308, as a function of the listing and of
   the configured prefix *)

\* services in one listing
MaxItems == 2

\* the prefixes a WithServicePrefix option may configure
Prefixes == {"", "user-", "water-"}

\* the port lists a service may declare
PortVariants ==
    { <<>>,
      <<Port("", 7000)>>,
      <<Port("http", 8080), Port("grpc", 9000)>>,
      <<Port("http", 8080), Port("rpc", 9000)>>,
      <<Port("metrics", grpcDefaultPort), Port("grpc", 9000)>> }

ItemPool ==
    {Item(n, ps) : n \in {"user-service", "water-quality-service", "billing"},
                   ps \in PortVariants}

\* the listings of at most MaxItems services (names are unique in a namespace)
Listings ==
    {l \in UNION {[1..n -> ItemPool] : n \in 0..MaxItems} :
        \A i, j \in 1..Len(l) : l[i].Name = l[j].Name => i = j}

\* one discoverServices call on a listing, with a prefix
InitDiscover ==
    /\ ProgramInit
    /\ cluster = <<>>
    /\ disc \in {[NoDiscover EXCEPT !.items = l, !.prefix = P] :
                    l \in Listings, P \in Prefixes}
    /\ reader = NoReader
    /\ up = NoUpload
    /\ other = NoUpload
    /\ call = NoFunctionCall

\* discovery.go:249-308: the listing call fails (251-254) or the loop runs
DiscoverServicesCall ==
    /\ ~disc.called
    /\ \/ disc' = [disc EXCEPT !.called = TRUE,
                               !.services = DiscoverLoop(disc.items, disc.prefix,
                                                         namespace)]
       \/ disc' = [disc EXCEPT !.called = TRUE, !.err = TRUE]
    /\ UNCHANGED <<cluster, changes, proc, pc, services, connections, conns,
                   connectionsMutex, done, rc, gc, closeRes, gw, lastRun, reader, up, call, other>>

SpecDiscover == InitDiscover /\ [][DiscoverServicesCall]_vars

\* name starts with prefix, by their spellings
StartsWith(name, prefix) ==
    /\ Len(Chars(prefix)) <= Len(Chars(name))
    /\ SubSeq(Chars(name), 1, Len(Chars(prefix))) = Chars(prefix)

\* the names of a sequence of items or of descriptors, in order
NameSeq(xs) == [i \in 1..Len(xs) |-> xs[i].Name]

\* the items of the listing whose name starts with the prefix, in order
WithPrefix(items, prefix) ==
    LET Keep(it) == StartsWith(it.Name, prefix)
    IN  SelectSeq(items, Keep)

\* C11 as stated: a successful discovery returns exactly the services of the
\* listing whose name starts with the prefix (all of the listing when the prefix
\* is empty).
C11_ExactlyThePrefixed ==
    (disc.called /\ ~disc.err) =>
        /\ NameSeq(disc.services) = NameSeq(WithPrefix(disc.items, disc.prefix))
        /\ disc.prefix = "" => NameSeq(disc.services) = NameSeq(disc.items)

\* the items discovery keeps: the name starts with the prefix and at least one
\* port is declared
Retained(items, prefix) ==
    LET Keep(it) == StartsWith(it.Name, prefix) /\ Len(it.Ports) > 0
    IN  SelectSeq(items, Keep)

\* C11 amended: a successful discovery returns, in listing order, one descriptor
\* for each service of the listing whose name starts with the prefix and which
\* declares at least one port, and nothing else; with the empty prefix these are
\* all the services of the listing that declare a port.
C11_ThePrefixedWithAPort ==
    (disc.called /\ ~disc.err) =>
        /\ NameSeq(disc.services) = NameSeq(Retained(disc.items, disc.prefix))
        /\ disc.prefix = "" => NameSeq(disc.services) = NameSeq(Retained(disc.items, ""))
        /\ \A i \in 1..Len(disc.services) :
              StartsWith(disc.services[i].Name, disc.prefix)

\* C11 witness: discovery with the prefix "user-" on <<billing, user-service>>,
\* both with ports, has returned the one descriptor of user-service.
C11_Witness ==
    /\ disc.called
    /\ ~disc.err
    /\ disc.prefix = "user-"
    /\ NameSeq(disc.items) = <<"billing", "user-service">>
    /\ \A i \in 1..2 : Len(disc.items[i].Ports) > 0
    /\ NameSeq(disc.services) = <<"user-service">>

\* the least index of a non-empty set of indices
FirstOf(S) == CHOOSE i \in S : \A j \in S : i <= j

\* the port C12 states: a port named "rpc" or "grpc" if there is one, else a port
\* numbered 50051 if there is one, else the first declared port
PortByPriority(ports) ==
    LET named == {i \in 1..Len(ports) : ports[i].Name \in {"rpc", "grpc"}}
        numbered == {i \in 1..Len(ports) : ports[i].Port = grpcDefaultPort}
    IN  IF named # {} THEN ports[FirstOf(named)].Port
        ELSE IF numbered # {} THEN ports[FirstOf(numbered)].Port
        ELSE ports[1].Port

\* the port the loop of discovery.go:272-282 yields: the first declared port that
\* is named "grpc" or numbered 50051, else the first declared port
PortByFirstMatch(ports) ==
    LET matching == {i \in 1..Len(ports) :
                        ports[i].Name = "grpc" \/ ports[i].Port = grpcDefaultPort}
    IN  IF matching # {} THEN ports[FirstOf(matching)].Port ELSE ports[1].Port

\* C12 as stated: every retained service gets the port of the strict priority
\* (named "rpc" or "grpc", else numbered 50051, else first declared); a service
\* without ports is left out and the call does not fail.
C12_PortByStrictPriority ==
    (disc.called /\ ~disc.err) =>
        LET kept == Retained(disc.items, disc.prefix)
        IN  /\ Len(disc.services) = Len(kept)
            /\ \A i \in 1..Len(kept) :
                  disc.services[i].Endpoint =
                     Endpoint(kept[i].Name, namespace, PortByPriority(kept[i].Ports))

\* C12 amended: every retained service gets the first declared port that is
\* named "grpc" or numbered 50051 (one test, in declaration order: a port named
\* "rpc" is not recognised, and a port numbered 50051 declared before a port named
\* "grpc" wins), and the first declared port when none matches; a service without
\* ports is left out and the call does not fail.
C12_PortByFirstMatch ==
    (disc.called /\ ~disc.err) =>
        LET kept == Retained(disc.items, disc.prefix)
        IN  /\ Len(disc.services) = Len(kept)
            /\ \A i \in 1..Len(kept) :
                  /\ disc.services[i].Name = kept[i].Name
                  /\ disc.services[i].Endpoint =
                        Endpoint(kept[i].Name, namespace, PortByFirstMatch(kept[i].Ports))
            /\ \A i \in 1..Len(disc.items) :
                  Len(disc.items[i].Ports) = 0 =>
                     disc.items[i].Name \notin NamesOf(disc.services)

\* C12 witness: discovery on <<billing without ports, user-service with ports
\* http:8080 and grpc:9000>> has returned user-service alone, at port 9000.
C12_Witness ==
    /\ disc.called
    /\ ~disc.err
    /\ disc.items = <<Item("billing", <<>>),
                      Item("user-service", <<Port("http", 8080), Port("grpc", 9000)>>)>>
    /\ Len(disc.services) = 1
    /\ disc.services[1].Endpoint = "user-service.ride-sharing.svc.cluster.local:9000"

-----------------------------------------------------------------------------
(* Listing failure and empty result *)

\* C13: the discovery step of a pass returns an error exactly when the listing
\* call fails, and then the pass ends there; when the listing succeeds the result
\* is the descriptors of the listing, the empty sequence when no service of the
\* listing is retained, with no error, and the pass goes on. A pass whose snapshot
\* is empty closes every connection the table tracks and leaves the table empty.
C13_ErrorOnlyWhenListingFails ==
    [][\A p \in RefreshProcs :
          /\ (pc[p] = "rc_discover" /\ pc'[p] # "rc_discover") =>
                /\ rc'[p].err <=> RefreshListFails(p)
                /\ rc'[p].err <=> pc'[p] = "rc_ret"
                /\ ~rc'[p].err =>
                      /\ pc'[p] = "rc_store"
                      /\ rc'[p].snap = DiscoverLoop(cluster, servicePrefix, namespace)
                      /\ Retained(cluster, servicePrefix) = <<>> => rc'[p].snap = <<>>
          /\ (pc[p] = "rc_close" /\ pc'[p] = "rc_ret" /\ rc[p].snap = <<>>) =>
                /\ ~rc'[p].err
                /\ connections' = NoConnections
                /\ \A n \in DOMAIN connections :
                      conns'[connections[n]].closes = conns[connections[n]].closes + 1]_vars

\* C13 witness: a background pass over an empty listing has returned without
\* error, the table it found tracking connections is empty and a connection was
\* closed.
C13_Witness ==
    /\ pc[BgProc] = "rc_ret"
    /\ ~rc[BgProc].err
    /\ rc[BgProc].snap = <<>>
    /\ cluster = <<>>
    /\ lastRun.ran
    /\ lastRun.snap = <<>>
    /\ connections = NoConnections
    /\ \E i \in DOMAIN conns : conns[i].closes = 1

-----------------------------------------------------------------------------
(* GetAllServices, discovery.go:134-142 *)

\* the zero value of domain.Service
ZeroService == [Name |-> "", Endpoint |-> ""]

\* make([]domain.Service, n) followed by copy(dst, src): min(n, len(src))
\* elements are copied, the rest of dst keeps the zero value
Copy(n, src) == [i \in 1..n |-> IF i <= Len(src) THEN src[i] ELSE ZeroService]

\* discovery.go:136-139: take the read lock (deferred unlock) and allocate
\* len(kd.services) elements
GetAllServicesBegin ==
    /\ Running
    /\ Constructed
    /\ reader.pc = "idle"
    /\ reader' = [reader EXCEPT !.pc = "copy", !.n = Len(services)]
    /\ UNCHANGED <<cluster, changes, proc, pc, services, connections, conns,
                   connectionsMutex, done, rc, gc, closeRes, gw, lastRun, disc, up, call, other>>

\* discovery.go:140: copy(copiedServices, kd.services)
GetAllServicesCopy ==
    /\ Running
    /\ reader.pc = "copy"
    /\ reader' = [reader EXCEPT !.pc = "ret", !.held = Copy(reader.n, services)]
    /\ UNCHANGED <<cluster, changes, proc, pc, services, connections, conns,
                   connectionsMutex, done, rc, gc, closeRes, gw, lastRun, disc, up, call, other>>

\* discovery.go:141: return copiedServices, nil; the deferred RUnlock runs and the
\* caller holds the copy from then on
GetAllServicesReturn ==
    /\ Running
    /\ reader.pc = "ret"
    /\ reader' = [reader EXCEPT !.pc = "done", !.returned = TRUE]
    /\ UNCHANGED <<cluster, changes, proc, pc, services, connections, conns,
                   connectionsMutex, done, rc, gc, closeRes, gw, lastRun, disc, up, call, other>>

\* The discovery component read by a request goroutine: one GetAllServices call
\* while the background refresher runs and the cluster changes.
SnapshotNext ==
    \/ NewDiscoveryBegin
    \/ NewDiscoveryReturn
    \/ \E p \in {MainProc, BgProc} : RefreshDiscover(p)
    \/ \E p \in {MainProc, BgProc} : RefreshStore(p)
    \/ \E p \in {MainProc, BgProc} : RefreshOpen(p)
    \/ \E p \in {MainProc, BgProc} : RefreshCloseInactive(p)
    \/ BackgroundTick
    \/ BackgroundRefreshReturn
    \/ GetAllServicesBegin
    \/ GetAllServicesCopy
    \/ GetAllServicesReturn
    \/ ClusterChange

SpecSnapshot == Init /\ [][SnapshotNext]_vars

\* the snapshots one pass can write: the descriptors of one listing
PassSnapshots == {discoverServices(c) : c \in ClusterCatalog}

\* C14: the copy GetAllServices makes is the whole stored snapshot, which no pass
\* replaces while the call runs; the value it returns is the snapshot one pass
\* wrote (or the empty one of before the first pass), never a part of one or a
\* mixture of two; and no later step, a completed refresh included, changes the
\* value the caller holds.
C14_SnapshotIsPointInTime ==
    [][/\ (reader.pc = "copy" /\ reader'.pc = "ret") => reader'.held = services
       /\ reader.pc \in {"copy", "ret"} => services' = services
       /\ reader'.pc \in {"ret", "done"} => reader'.held \in PassSnapshots
       /\ reader.pc \in {"ret", "done"} => reader'.held = reader.held]_vars

\* C14 witness: GetAllServices returned a non-empty snapshot and a refresh that
\* completed afterwards stored a different one.
C14_Witness ==
    /\ reader.returned
    /\ reader.held # <<>>
    /\ services # reader.held
    /\ pc[BgProc] = "rc_ret"
    /\ lastRun.ran
    /\ lastRun.snap = services

-----------------------------------------------------------------------------
(* handleWaterQualityUpload, binaryFileHanlder.go:101-226 *)

\* binaryFileHanlder.go:30 chunkSize (1 << 20 in the source), the length of the
\* read buffer, scaled down so that every split of a file into reads is listed
chunkSize == 2

\* binaryFileHanlder.go:27 maxUploadSize (1 << 30 in the source), on the scale of
\* chunkSize
maxUploadSize == 3

\* the longest file of the model: one byte over maxUploadSize
MaxFileLen == maxUploadSize + 1

\* the byte values of the model's files
Bytes == {"a", "b"}

\* the byte sequences a file part may hold
Files == UNION {[1..k -> Bytes] : k \in 0..MaxFileLen}

\* the multipart requests: a body that parses or not, the two text fields (an
\* absent field reads as ""), and the file part, present or not
Forms ==
    [parseOk : BOOLEAN, filename : {"", "q.csv"}, fileType : {"", "csv"},
     hasFile : BOOLEAN, data : Files]

\* google.golang.org/grpc/codes: the codes an error status may carry
Codes ==
    {"Canceled", "Unknown", "InvalidArgument", "DeadlineExceeded", "NotFound",
     "AlreadyExists", "PermissionDenied", "ResourceExhausted", "FailedPrecondition",
     "Aborted", "OutOfRange", "Unimplemented", "Internal", "Unavailable", "DataLoss",
     "Unauthenticated"}

\* the errors a stream operation may return: a status error with its code, io.EOF,
\* or an error that carries no status
StreamErrors == Codes \cup {"EOF", "other"}

\* binaryFileHanlder.go:34-73 with the default branch alone
grpcStatusToHTTP_AlwaysInternal(code) == 500

\* binaryFileHanlder.go:34-73
grpcStatusToHTTP(code) ==
    CASE code = "OK" -> 200
      [] code = "Canceled" -> 408
      [] code = "Unknown" -> 500
      [] code = "InvalidArgument" -> 400
      [] code = "DeadlineExceeded" -> 504
      [] code = "NotFound" -> 404
      [] code = "AlreadyExists" -> 409
      [] code = "PermissionDenied" -> 403
      [] code = "ResourceExhausted" -> 429
      [] code = "FailedPrecondition" -> 400
      [] code = "Aborted" -> 409
      [] code = "OutOfRange" -> 400
      [] code = "Unimplemented" -> 501
      [] code = "Internal" -> 500
      [] code = "Unavailable" -> 503
      [] code = "DataLoss" -> 500
      [] code = "Unauthenticated" -> 401
      [] OTHER -> 500

\* st, _ := status.FromError(err); st.Code(): the code of a status error, Unknown
\* for an error that carries no status (io.EOF included)
CodeOf(err) == IF err \in Codes THEN err ELSE "Unknown"

\* http.Error(w, msg, code) followed by return: the status and the message are
\* written and the handler is left to run its deferred calls
Respond(u, code, msg) ==
    [u EXCEPT !.statuses = Append(@, code), !.body = msg, !.pc = "ret"]

\* net/http Request.ParseMultipartForm(maxMemory): the whole body is parsed, file
\* parts are kept in memory up to maxMemory bytes and on disk beyond; the only
\* error is a body that does not parse
ParseMultipartForm(form, maxMemory) ==
    [err |-> ~form.parseOk,
     inMemory |-> IF Len(form.data) <= maxMemory THEN Len(form.data) ELSE maxMemory]

\* binaryFileHanlder.go:104-126: the four checks of the form, in order; the
\* message of the first that fails, "" when all pass
ValidateForm_IgnoresFileType(form) ==
    IF ParseMultipartForm(form, maxUploadSize).err THEN "failed to parse multipart form"
    ELSE IF form.filename = "" THEN "filename is required"
    ELSE IF ~form.hasFile THEN "failed to get form file 'file'"
    ELSE ""

\* binaryFileHanlder.go:104-126
ValidateForm(form) ==
    IF ParseMultipartForm(form, maxUploadSize).err THEN "failed to parse multipart form"
    ELSE IF form.filename = "" THEN "filename is required"
    ELSE IF form.fileType = "" THEN "file_type is required"
    ELSE IF ~form.hasFile THEN "failed to get form file 'file'"
    ELSE ""

\* the three payloads of waterPb.UploadRequest
FilenameMsg(name) == [kind |-> "filename", payload |-> name]
FileTypeMsg(type) == [kind |-> "file_type", payload |-> type]
DataChunkMsg_WholeBuffer(buffer, n) == [kind |-> "data_chunk", payload |-> buffer]

\* binaryFileHanlder.go:174: DataChunk: buffer[:n] (Send encodes the message
\* before it returns, so the payload is the buffer's content at the call)
DataChunkMsg(buffer, n) == [kind |-> "data_chunk", payload |-> SubSeq(buffer, 1, n)]

\* binaryFileHanlder.go:157-162 going on to the file type after a failed send
SendFilename_ContinuesOnError(u, e) ==
    IF e = "nil"
    THEN [u EXCEPT !.sent = Append(@, FilenameMsg(u.form.filename)), !.pc = "send_type"]
    ELSE [u EXCEPT !.sendErr = e, !.pc = "send_type"]

\* binaryFileHanlder.go:157-162: send the filename; e is the error Send returns
SendFilename(u, e) ==
    IF e = "nil"
    THEN [u EXCEPT !.sent = Append(@, FilenameMsg(u.form.filename)), !.pc = "send_type"]
    ELSE Respond([u EXCEPT !.sendErr = e], grpcStatusToHTTP(CodeOf(e)),
                 "failed to send filename")

\* binaryFileHanlder.go:163-170 with the file type never sent
SendFileType_Skipped(u, e) ==
    [u EXCEPT !.buffer = [i \in 1..chunkSize |-> "0"], !.pc = "read"]

\* binaryFileHanlder.go:163-170: send the file type, then make the read buffer
SendFileType(u, e) ==
    IF e = "nil"
    THEN [u EXCEPT !.sent = Append(@, FileTypeMsg(u.form.fileType)),
                   !.buffer = [i \in 1..chunkSize |-> "0"],
                   !.pc = "read"]
    ELSE Respond([u EXCEPT !.sendErr = e], grpcStatusToHTTP(CodeOf(e)),
                 "failed to send filetype")

\* binaryFileHanlder.go:188-195 leaving the loop on every read error
AfterChunk_ClosesOnReadError(u) ==
    IF u.readErr # "nil" THEN [u EXCEPT !.pc = "close"] ELSE [u EXCEPT !.pc = "read"]

\* binaryFileHanlder.go:188-195: after the chunk, look at the error of the read
AfterChunk(u) ==
    IF u.readErr = "EOF" THEN [u EXCEPT !.pc = "close"]
    ELSE IF u.readErr # "nil" THEN Respond(u, 500, "error reading file chunk")
    ELSE [u EXCEPT !.pc = "read"]

\* binaryFileHanlder.go:175-186 carrying on with the loop after a failed send
SendChunkFailed_KeepsReading(u, e) == AfterChunk([u EXCEPT !.sendErr = e])

\* binaryFileHanlder.go:175-186 reporting every send error at once
SendChunkFailed_AlwaysReports(u, e) ==
    Respond([u EXCEPT !.sendErr = e], grpcStatusToHTTP(CodeOf(e)),
            "failed to send data chunk")

\* binaryFileHanlder.go:175-186 reporting the error and going on to CloseAndRecv
SendChunkFailed_ReportsAndCloses(u, e) ==
    [Respond([u EXCEPT !.sendErr = e], grpcStatusToHTTP(CodeOf(e)),
             "failed to send data chunk") EXCEPT !.pc = "close"]

\* binaryFileHanlder.go:175-186: a failed chunk send; io.EOF, Canceled and
\* Unavailable leave the loop for CloseAndRecv, any other error is reported
SendChunkFailed(u, e) ==
    IF e = "EOF" \/ CodeOf(e) \in {"Canceled", "Unavailable"}
    THEN [u EXCEPT !.sendErr = e, !.pc = "close"]
    ELSE Respond([u EXCEPT !.sendErr = e], grpcStatusToHTTP(CodeOf(e)),
                 "failed to send data chunk")

\* binaryFileHanlder.go:173-195: the body of the loop after the read
SendChunk(u, e) ==
    IF e = "nil"
    THEN AfterChunk([u EXCEPT !.sent = Append(@, DataChunkMsg(u.buffer, u.n))])
    ELSE SendChunkFailed(u, e)

\* binaryFileHanlder.go:199-215 with io.EOF classified as any other error
CloseAndRecvStatus_EOFAsOther(r) ==
    IF r = "ok" THEN 200
    ELSE IF r \in Codes THEN grpcStatusToHTTP(r)
    ELSE 500

\* binaryFileHanlder.go:199-221: the status for the outcome of CloseAndRecv
CloseAndRecvStatus(r) ==
    IF r = "ok" THEN 200
    ELSE IF r = "EOF" THEN 503
    ELSE IF r \in Codes THEN grpcStatusToHTTP(r)
    ELSE 500

\* binaryFileHanlder.go:203-222: the body written for the outcome of CloseAndRecv
CloseAndRecvBody(r) ==
    IF r = "ok" THEN "resp"
    ELSE IF r = "EOF" THEN "upload failed: server closed connection unexpectedly"
    ELSE IF r \in Codes THEN "upload processing failed"
    ELSE "upload failed with unexpected error"

\* grpc ClientStream.SendMsg: nil or an error; on a stream that was terminated it
\* returns io.EOF, the status being left for RecvMsg
SendOutcomes(u) == IF u.aborted THEN {"EOF"} ELSE {"nil"} \cup StreamErrors

\* grpc ClientStream.CloseAndRecv: the response or an error; on a stream
\* terminated by its context it returns the status Canceled
RecvOutcomes(u) == IF u.aborted THEN {"Canceled"} ELSE {"ok"} \cup StreamErrors

\* a defer statement: the call is pushed on the handler's stack of deferred calls
Defer(u, f) == [u EXCEPT !.defers = <<f>> \o @]

\* one deferred call of the handler
RunOne(u, f) ==
    CASE f = "file.Close" -> [u EXCEPT !.file = "closed"]
      [] f = "cancel"     -> [u EXCEPT !.ctx = "cancelled"]
      [] f = "conn.Close" -> [u EXCEPT !.connClosed = TRUE]

\* the return of the handler: its deferred calls run, the last deferred first
RECURSIVE RunDeferred(_)
RunDeferred(u) ==
    IF u.defers = <<>> THEN u
    ELSE RunDeferred(RunOne([u EXCEPT !.defers = Tail(@)], Head(u.defers)))

\* binaryFileHanlder.go:122-133: FormFile has returned the file; defer
\* file.Close(); ctx, cancel := context.WithTimeout(...); defer cancel()
FileExtracted(u) ==
    Defer(Defer([u EXCEPT !.file = "open", !.ctx = "live", !.pc = "dial"],
                "file.Close"),
          "cancel")

\* binaryFileHanlder.go:139-144 with no defer conn.Close()
Dialed_WithoutDefer(u) == [u EXCEPT !.conn = TRUE, !.pc = "open"]

\* binaryFileHanlder.go:139-144: grpc.NewClient has returned the connection;
\* defer conn.Close()
Dialed(u) == Defer([u EXCEPT !.conn = TRUE, !.pc = "open"], "conn.Close")

\* the variables the upload handler leaves alone
nonUploadVars ==
    <<cluster, changes, proc, pc, services, connections, conns, connectionsMutex,
      done, rc, gc, closeRes, gw, lastRun, disc, reader, call, other>>

\* a request has reached the handler
InitUpload ==
    /\ ProgramInit
    /\ cluster = <<>>
    /\ disc = NoDiscover
    /\ reader = NoReader
    /\ call = NoFunctionCall
    /\ other = NoUpload
    /\ up \in {[NoUpload EXCEPT !.pc = "parse", !.form = f] : f \in Forms}

\* binaryFileHanlder.go:104-133
UploadValidate ==
    /\ up.pc = "parse"
    /\ up' = IF ValidateForm(up.form) # ""
             THEN Respond(up, 400, ValidateForm(up.form))
             ELSE FileExtracted(up)
    /\ UNCHANGED nonUploadVars

\* binaryFileHanlder.go:139-144
UploadDial ==
    /\ up.pc = "dial"
    /\ \E ok \in BOOLEAN :
          up' = IF ok THEN Dialed(up)
                ELSE Respond(up, 500, "failed to connect to water quality service")
    /\ UNCHANGED nonUploadVars

\* binaryFileHanlder.go:149-154
UploadOpenStream ==
    /\ up.pc = "open"
    /\ \E e \in {"nil"} \cup StreamErrors :
          up' = IF e = "nil" THEN [up EXCEPT !.stream = TRUE, !.pc = "send_name"]
                ELSE Respond([up EXCEPT !.openErr = e], grpcStatusToHTTP(CodeOf(e)),
                             "failed to start upload stream")
    /\ UNCHANGED nonUploadVars

\* binaryFileHanlder.go:157-162
UploadSendFilename ==
    /\ up.pc = "send_name"
    /\ \E e \in SendOutcomes(up) : up' = SendFilename(up, e)
    /\ UNCHANGED nonUploadVars

\* binaryFileHanlder.go:163-170
UploadSendFileType ==
    /\ up.pc = "send_type"
    /\ \E e \in SendOutcomes(up) : up' = SendFileType(up, e)
    /\ UNCHANGED nonUploadVars

\* binaryFileHanlder.go:172: n, readErr := file.Read(buffer). A read delivers the
\* next n bytes of the file, 0 <= n <= len(buffer), into the start of the buffer,
\* with io.EOF only at the end of the file, or with an error
UploadRead ==
    /\ up.pc = "read"
    /\ \E n \in 0..chunkSize, e \in {"nil", "EOF", "err"} :
          /\ up.pos + n <= Len(up.form.data)
          /\ e = "EOF" => up.pos + n = Len(up.form.data)
          /\ up' = [up EXCEPT !.buffer = [i \in 1..chunkSize |->
                                            IF i <= n THEN up.form.data[up.pos + i]
                                            ELSE @[i]],
                              !.pos = @ + n,
                              !.n = n,
                              !.readErr = e,
                              !.pc = "chunk"]
    /\ UNCHANGED nonUploadVars

\* binaryFileHanlder.go:173-195
UploadSendChunk ==
    /\ up.pc = "chunk"
    /\ IF up.n > 0
       THEN \E e \in SendOutcomes(up) : up' = SendChunk(up, e)
       ELSE up' = AfterChunk(up)
    /\ UNCHANGED nonUploadVars

\* binaryFileHanlder.go:199-224
UploadCloseAndRecv ==
    /\ up.pc = "close"
    /\ \E r \in RecvOutcomes(up) :
          up' = Respond([up EXCEPT !.recv = r], CloseAndRecvStatus(r), CloseAndRecvBody(r))
    /\ UNCHANGED nonUploadVars

\* the handler returns, its deferred Close closing the connection the discovery
\* component's table holds for the service (a connection obtained from
\* GetConnection, not one of the request's own)
UploadReturn_ClosesTableEntry ==
    /\ up.pc = "ret"
    /\ up' = [RunDeferred(up) EXCEPT !.pc = "returned"]
    /\ connections' = [n \in DOMAIN connections \ {"water-quality-service"} |->
                          connections[n]]
    /\ UNCHANGED <<cluster, changes, proc, pc, services, conns, connectionsMutex,
                   done, rc, gc, closeRes, gw, lastRun, disc, reader, call, other>>

\* the handler returns: the deferred conn.Close, cancel and file.Close run
UploadReturn ==
    /\ up.pc = "ret"
    /\ up' = [RunDeferred(up) EXCEPT !.pc = "returned"]
    /\ UNCHANGED nonUploadVars

\* binaryFileHanlder.go:132, 149: the stream runs under a context derived from
\* r.Context(); the client cancels the request while the stream is open and the
\* handler has not answered
UploadCancel ==
    /\ up.stream
    /\ up.pc \in {"send_name", "send_type", "read", "chunk", "close"}
    /\ ~up.cancelled
    /\ up' = [up EXCEPT !.cancelled = TRUE]
    /\ UNCHANGED nonUploadVars

\* grpc: the stream, whose context is now done, is terminated
UploadStreamAbort ==
    /\ up.cancelled
    /\ ~up.aborted
    /\ up.pc \in {"send_name", "send_type", "read", "chunk", "close"}
    /\ up' = [up EXCEPT !.aborted = TRUE]
    /\ UNCHANGED nonUploadVars

UploadNext ==
    \/ UploadValidate
    \/ UploadDial
    \/ UploadOpenStream
    \/ UploadSendFilename
    \/ UploadSendFileType
    \/ UploadRead
    \/ UploadSendChunk
    \/ UploadCloseAndRecv
    \/ UploadReturn
    \/ UploadCancel
    \/ UploadStreamAbort

\* one upload request handled by handleWaterQualityUpload
SpecUpload == InitUpload /\ [][UploadNext]_vars

-----------------------------------------------------------------------------
(* Properties of handleWaterQualityUpload *)

\* the concatenation of a sequence of byte sequences
RECURSIVE Concat(_)
Concat(ss) == IF ss = <<>> THEN <<>> ELSE Head(ss) \o Concat(Tail(ss))

\* the payloads of the messages of s from the third on
ChunkPayloads(s) == [i \in 1..(Len(s) - 2) |-> s[i + 2].payload]

\* a is an initial part of b
IsPrefix(a, b) == Len(a) <= Len(b) /\ a = SubSeq(b, 1, Len(a))

\* the messages sent so far are a filename message, then a file_type message,
\* then data chunks that spell an initial part of the file
MetadataThenChunksInFileOrder(u) ==
    /\ Len(u.sent) >= 1 => u.sent[1] = [kind |-> "filename", payload |-> u.form.filename]
    /\ Len(u.sent) >= 2 => u.sent[2] = [kind |-> "file_type", payload |-> u.form.fileType]
    /\ \A i \in 3..Len(u.sent) :
          /\ u.sent[i].kind = "data_chunk"
          /\ u.sent[i].payload # <<>>
    /\ Len(u.sent) >= 3 => IsPrefix(Concat(ChunkPayloads(u.sent)), u.form.data)

\* C15: within one upload request every step of the handler sends at most one
\* message, after the ones already sent, and the messages sent are, in order, one
\* filename message, one file_type message, then data chunks in file order: no data
\* chunk precedes either metadata message.
C15_MetadataBeforeChunksInOrder ==
    [][/\ Len(up'.sent) <= Len(up.sent) + 1
       /\ IsPrefix(up.sent, up'.sent)
       /\ MetadataThenChunksInFileOrder(up')]_vars

\* C15 witness: an upload of a three-byte file has returned after sending the two
\* metadata messages and two data chunks.
C15_Witness ==
    /\ up.pc = "returned"
    /\ Len(up.form.data) = 3
    /\ Len(up.sent) = 4
    /\ up.sent[3].kind = "data_chunk"
    /\ up.sent[4].kind = "data_chunk"

\* the read loop has ended at the end of the file and no Send has failed
ReadToEndNoSendFailed(u) ==
    /\ u.pc \in {"close", "ret", "returned"}
    /\ u.readErr = "EOF"
    /\ u.sendErr = "nil"

\* C16: for every file and every way the reads split it (each read delivering
\* between 0 and chunkSize bytes, the end of the file reported with the last bytes
\* or after them), when the reads reach the end of the file and no Send fails, the
\* payloads of the data chunks sent, concatenated in send order, are the file's
\* bytes exactly.
C16_ChunksReassembleToFile ==
    ReadToEndNoSendFailed(up) => Concat(ChunkPayloads(up.sent)) = up.form.data

\* C16 witness: the file <<a, b, b>> was read as one byte and then two, both
\* chunks were sent, and the backend acknowledged the upload.
C16_Witness ==
    /\ up.pc = "returned"
    /\ up.form.data = <<"a", "b", "b">>
    /\ ReadToEndNoSendFailed(up)
    /\ ChunkPayloads(up.sent) = << <<"a">>, <<"b", "b">> >>
    /\ up.statuses = <<200>>

\* C17: on every path through the handler exactly one HTTP status is written and
\* the handler then returns: no step writes a second status, a written status is
\* followed by the return and by nothing else, and the handler never returns
\* without a status written.
C17_ExactlyOneTerminalResponse ==
    [][/\ Len(up'.statuses) <= 1
       /\ up'.statuses # <<>> => up'.pc \in {"ret", "returned"}
       /\ up'.pc \in {"ret", "returned"} => Len(up'.statuses) = 1
       /\ up.statuses # <<>> => (up'.statuses = up.statuses /\ up'.pc = "returned")]_vars

\* C17 witness: the send of a data chunk failed with ResourceExhausted and the
\* handler returned after writing 429 alone.
C17_Witness ==
    /\ up.pc = "returned"
    /\ up.sendErr = "ResourceExhausted"
    /\ Len(up.sent) >= 2
    /\ up.recv = "none"
    /\ up.statuses = <<429>>

\* C18: CloseAndRecv is called once, after the last send; its success is answered
\* with 200 and the backend response as body, io.EOF with 503, a status error with
\* grpcStatusToHTTP of its code, any other error with 500; the handler sends
\* nothing more and returns.
C18_CloseAndRecvClassification ==
    [][/\ up'.recv # "none" => up'.pc \in {"ret", "returned"}
       /\ up.recv # "none" => up'.recv = up.recv
       /\ (up.pc = "close" /\ up'.pc # "close") =>
             /\ up.recv = "none"
             /\ up'.recv \in {"ok"} \cup StreamErrors
             /\ up'.sent = up.sent
             /\ up'.pc = "ret"
             /\ up'.recv = "ok" => (up'.statuses = <<200>> /\ up'.body = "resp")
             /\ up'.recv = "EOF" => up'.statuses = <<503>>
             /\ up'.recv \in Codes => up'.statuses = <<grpcStatusToHTTP(up'.recv)>>
             /\ up'.recv = "other" => up'.statuses = <<500>>
             /\ up'.recv # "ok" => up'.body # "resp"]_vars

\* C18 witness: every chunk was sent, CloseAndRecv returned io.EOF and the
\* handler returned after answering 503.
C18_Witness ==
    /\ up.pc = "returned"
    /\ up.recv = "EOF"
    /\ up.sendErr = "nil"
    /\ Len(up.sent) >= 3
    /\ up.statuses = <<503>>

\* the form does not parse, or one of the filename field, the file_type field
\* and the file part is missing
FormIncomplete(form) ==
    \/ ~form.parseOk
    \/ form.filename = ""
    \/ form.fileType = ""
    \/ ~form.hasFile

\* C19: when the multipart form does not parse, or the filename field, the
\* file_type field or the file part is missing, the request is answered with 400
\* and no backend connection is created, no stream is opened and no message is
\* sent.
C19_FormValidationBeforeBackend ==
    FormIncomplete(up.form) =>
        /\ up.pc \in {"parse", "ret", "returned"}
        /\ up.pc \in {"ret", "returned"} => up.statuses = <<400>>
        /\ ~up.conn
        /\ ~up.stream
        /\ up.sent = <<>>

\* C19 witness: a form with both text fields and no file part was answered with
\* 400, and nothing was done with the backend.
C19_Witness ==
    /\ up.pc = "returned"
    /\ up.form.parseOk
    /\ up.form.filename # ""
    /\ up.form.fileType # ""
    /\ ~up.form.hasFile
    /\ up.statuses = <<400>>
    /\ ~up.conn

\* C20 as stated: an upload whose file is larger than maxUploadSize is rejected
\* before any chunk is streamed: no data chunk of it is sent to the backend and
\* it is not answered with 200.
C20_OversizedUploadRejected ==
    (up.form.hasFile /\ Len(up.form.data) > maxUploadSize) =>
        /\ \A i \in 1..Len(up.sent) : up.sent[i].kind # "data_chunk"
        /\ up.statuses # <<200>>

-----------------------------------------------------------------------------
(* grpcStatusToHTTP, binaryFileHanlder.go:33-73 *)

\* the largest codes.Code value handed to grpcStatusToHTTP (the type is uint32;
\* 0..16 are the defined codes)
MaxCode == 63

\* google.golang.org/grpc/codes: the names of the codes 0..16, in order
CodeNames ==
    <<"OK", "Canceled", "Unknown", "InvalidArgument", "DeadlineExceeded", "NotFound",
      "AlreadyExists", "PermissionDenied", "ResourceExhausted", "FailedPrecondition",
      "Aborted", "OutOfRange", "Unimplemented", "Internal", "Unavailable", "DataLoss",
      "Unauthenticated">>

\* codes.Code(c).String()
CodeName(c) ==
    IF c + 1 \in 1..Len(CodeNames) THEN CodeNames[c + 1]
    ELSE "Code(" \o ToString(c) \o ")"

InitTranslate ==
    /\ ProgramInit
    /\ cluster = <<>>
    /\ disc = NoDiscover
    /\ reader = NoReader
    /\ up = NoUpload
    /\ other = NoUpload
    /\ call \in {[fn |-> "grpcStatusToHTTP", arg |-> c, called |-> FALSE, result |-> 0] :
                    c \in 0..MaxCode}

\* one call grpcStatusToHTTP(code)
GrpcStatusToHTTPCall ==
    /\ call.fn = "grpcStatusToHTTP"
    /\ ~call.called
    /\ call' = [call EXCEPT !.called = TRUE,
                            !.result = grpcStatusToHTTP(CodeName(call.arg))]
    /\ UNCHANGED <<cluster, changes, proc, pc, services, connections, conns,
                   connectionsMutex, done, rc, gc, closeRes, gw, lastRun, disc,
                   reader, up, other>>

SpecTranslate == InitTranslate /\ [][GrpcStatusToHTTPCall]_vars

\* the HTTP statuses C22 lists for the codes 0 (OK) to 16 (Unauthenticated)
StatusTable ==
    <<200, 408, 500, 400, 504, 404, 409, 403, 429, 400, 409, 400, 501, 500, 503, 500, 401>>

\* C22: grpcStatusToHTTP returns, for each of the seventeen defined codes, the
\* status of the table (OK 200, Canceled 408, Unknown 500, InvalidArgument 400,
\* DeadlineExceeded 504, NotFound 404, AlreadyExists 409, PermissionDenied 403,
\* ResourceExhausted 429, FailedPrecondition 400, Aborted 409, OutOfRange 400,
\* Unimplemented 501, Internal 500, Unavailable 503, DataLoss 500,
\* Unauthenticated 401) and 500 for every other code value; it always returns a
\* status.
C22_StatusMappingExactAndTotal ==
    call.called =>
        /\ call.result \in 100..599
        /\ call.arg \in 0..16 => call.result = StatusTable[call.arg + 1]
        /\ call.arg \notin 0..16 => call.result = 500

\* C22 witness: the code 8 (ResourceExhausted) was mapped to 429.
C22_Witness ==
    /\ call.fn = "grpcStatusToHTTP"
    /\ call.called
    /\ call.arg = 8
    /\ call.result = 429

-----------------------------------------------------------------------------
(* Header forwarding: headerMatcher, gateway.go:193-203, and the upload call *)

UpperLetters ==
    <<"A", "B", "C", "D", "E", "F", "G", "H", "I", "J", "K", "L", "M", "N", "O", "P", "Q", "R", "S", "T", "U", "V", "W", "X", "Y", "Z">>

LowerLetters ==
    <<"a", "b", "c", "d", "e", "f", "g", "h", "i", "j", "k", "l", "m", "n", "o", "p", "q", "r", "s", "t", "u", "v", "w", "x", "y", "z">>

\* strings.ToLower on one character
LowerChar(c) ==
    IF \E i \in 1..Len(UpperLetters) : UpperLetters[i] = c
    THEN LowerLetters[CHOOSE i \in 1..Len(UpperLetters) : UpperLetters[i] = c]
    ELSE c

\* strings.ToLower on a header key, a sequence of characters
LowerKey(key) == [i \in 1..Len(key) |-> LowerChar(key[i])]

\* strings.HasPrefix on sequences of characters
KeyHasPrefix(key, prefix) ==
    /\ Len(prefix) <= Len(key)
    /\ SubSeq(key, 1, Len(prefix)) = prefix

\* the longest generated header key
MaxKeyLen == 3

\* the inbound header keys: every key of up to MaxKeyLen characters over X, x, -
\* and a, three spellings of Authorization, Accept (a permanent HTTP header) and
\* Grpc-Metadata-a
HeaderKeys ==
    UNION {[1..k -> {"X", "x", "-", "a"}] : k \in 1..MaxKeyLen}
    \cup {<<"A", "u", "t", "h", "o", "r", "i", "z", "a", "t", "i", "o", "n">>,
          <<"a", "u", "t", "h", "o", "r", "i", "z", "a", "t", "i", "o", "n">>,
          <<"A", "U", "T", "H", "O", "R", "I", "Z", "A", "T", "I", "O", "N">>,
          <<"A", "c", "c", "e", "p", "t">>,
          <<"G", "r", "p", "c", "-", "M", "e", "t", "a", "d", "a", "t", "a", "-", "a">>}

\* grpc-gateway runtime.DefaultHeaderMatcher on a lower-cased key: a permanent
\* HTTP header is forwarded under the prefix grpcgateway-, a key with the prefix
\* grpc-metadata- is forwarded without it, any other key is dropped
DefaultHeaderMatcher(key) ==
    IF key = <<"a", "c", "c", "e", "p", "t">>
    THEN [key |-> <<"g", "r", "p", "c", "g", "a", "t", "e", "w", "a", "y", "-", "A", "c", "c", "e", "p", "t">>, ok |-> TRUE]
    ELSE IF KeyHasPrefix(key, <<"g", "r", "p", "c", "-", "m", "e", "t", "a", "d", "a", "t", "a", "-">>)
    THEN [key |-> SubSeq(key, Len(<<"g", "r", "p", "c", "-", "m", "e", "t", "a", "d", "a", "t", "a", "-">>) + 1, Len(key)), ok |-> TRUE]
    ELSE [key |-> <<>>, ok |-> FALSE]

\* gateway.go:194-203
headerMatcher(key) ==
    LET k == LowerKey(key)
    IN  IF k = <<"a", "u", "t", "h", "o", "r", "i", "z", "a", "t", "i", "o", "n">> THEN [key |-> k, ok |-> TRUE]
        ELSE IF KeyHasPrefix(k, <<"x", "-">>) THEN [key |-> k, ok |-> TRUE]
        ELSE DefaultHeaderMatcher(k)

\* binaryFileHanlder.go:132-149: the upload call runs under
\* context.WithTimeout(r.Context(), uploadTimeout), to which no header of the
\* request is attached as metadata
UploadCallHeader(key) == [key |-> <<>>, ok |-> FALSE]

InitHeader ==
    /\ ProgramInit
    /\ cluster = <<>>
    /\ disc = NoDiscover
    /\ reader = NoReader
    /\ up = NoUpload
    /\ other = NoUpload
    /\ call \in {[fn |-> f, arg |-> k, called |-> FALSE, result |-> [key |-> <<>>, ok |-> FALSE]] :
                    f \in {"headerMatcher", "handleWaterQualityUpload"}, k \in HeaderKeys}

\* one inbound header key meets the backend call: through the multiplexer's
\* matcher, or in the upload handler
HeaderForwardCall ==
    /\ call.fn \in {"headerMatcher", "handleWaterQualityUpload"}
    /\ ~call.called
    /\ call' = [call EXCEPT !.called = TRUE,
                            !.result = IF call.fn = "headerMatcher"
                                       THEN headerMatcher(call.arg)
                                       ELSE UploadCallHeader(call.arg)]
    /\ UNCHANGED <<cluster, changes, proc, pc, services, connections, conns,
                   connectionsMutex, done, rc, gc, closeRes, gw, lastRun, disc,
                   reader, up, other>>

SpecHeader == InitHeader /\ [][HeaderForwardCall]_vars

\* the key is Authorization or starts with x-, whatever the case of its letters
AuthorizationOrX(key) ==
    \/ LowerKey(key) = <<"a", "u", "t", "h", "o", "r", "i", "z", "a", "t", "i", "o", "n">>
    \/ (Len(key) >= 2 /\ LowerChar(key[1]) = "x" /\ key[2] = "-")

\* C23 as stated: an inbound header is propagated into the backend call exactly
\* when it is Authorization or its name starts with x- (in any case), both through
\* the multiplexer's matcher and in the upload call.
C23_ForwardedIffAuthorizationOrX ==
    call.called => (call.result.ok <=> AuthorizationOrX(call.arg))

-----------------------------------------------------------------------------
(* Startup ordering and GET /health, gateway.go:135-168 *)

\* gateway.go:162-164: a GET /health reaches the listener; the route answers 200
\* {"status":"healthy"} (404 from the router were the route absent)
GatewayHealth ==
    /\ Running
    /\ gw.serving
    /\ gw.healthStatus = 0
    /\ gw' = [gw EXCEPT !.healthStatus = IF gw.health THEN 200 ELSE 404]
    /\ UNCHANGED <<cluster, changes, proc, pc, services, connections, conns,
                   connectionsMutex, done, rc, gc, closeRes, lastRun, callVars>>

\* the program of Spec with a client asking for /health
HealthNext ==
    \/ Next
    \/ GatewayHealth

SpecHealth == Init /\ [][HealthNext]_vars

\* NewKubernetesDiscovery is still running its initial RefreshConnections, or has
\* not begun
InitialAttemptPending ==
    pc[MainProc] \in {"start", "rc_discover", "rc_store", "rc_open", "rc_close", "rc_ret"}

\* C24: the listener starts, and /health is answered, only after the initial
\* discovery-and-reconcile attempt has returned and setupHandlers has completed
\* (without error: its error ends the process before Listen); every answer of
\* /health is 200, whatever the snapshot, the connection table and the cluster
\* are.
C24_ServesAfterStartupRegistration ==
    [][/\ gw'.serving =>
             /\ ~InitialAttemptPending'
             /\ gw'.setupDone
             /\ gw'.err = <<>>
             /\ gw'.health
       /\ (~gw.serving /\ gw'.serving) => (pc[GwProc] = "listen" /\ gw.setupDone)
       /\ gw'.healthStatus # gw.healthStatus =>
             /\ gw.serving
             /\ gw'.healthStatus = 200]_vars

\* C24 witness: /health was answered 200 by a gateway whose initial listing had
\* failed: the cluster has services, none is in the snapshot and no connection is
\* tracked.
C24_Witness ==
    /\ Running
    /\ gw.serving
    /\ gw.healthStatus = 200
    /\ ~lastRun.ran
    /\ cluster # <<>>
    /\ services = <<>>
    /\ connections = NoConnections

\* the send errors after which the handler goes on to CloseAndRecv
StreamEndedErrors == {"EOF", "Canceled", "Unavailable"}

\* C25: when the send of a data chunk fails with io.EOF, Canceled or Unavailable
\* the handler writes nothing, sends no further message and goes to CloseAndRecv,
\* whose outcome makes the response; when it fails with any other error the
\* handler answers at once with grpcStatusToHTTP of the error's code (Unknown for
\* an error without status), sends nothing more and never calls CloseAndRecv.
C25_ChunkSendFailureClassification ==
    [][/\ (up.pc = "chunk" /\ up.sendErr = "nil" /\ up'.sendErr # "nil") =>
             /\ up'.sent = up.sent
             /\ up'.sendErr \in StreamEndedErrors =>
                   (up'.pc = "close" /\ up'.statuses = <<>>)
             /\ up'.sendErr \notin StreamEndedErrors =>
                   /\ up'.pc = "ret"
                   /\ up'.recv = "none"
                   /\ up'.statuses =
                        <<grpcStatusToHTTP(IF up'.sendErr \in Codes THEN up'.sendErr
                                           ELSE "Unknown")>>
       /\ up.sendErr # "nil" =>
             /\ up'.sent = up.sent
             /\ up'.sendErr = up.sendErr
             /\ up.sendErr \notin StreamEndedErrors => up'.recv = "none"
             /\ (up.sendErr \in StreamEndedErrors /\ up.pc = "close") =>
                   (up'.recv # "none" \/ up'.pc = "close")
       /\ (up.pc = "chunk" /\ up'.pc = "close" /\ up'.sendErr # "nil") =>
             up'.sendErr \in StreamEndedErrors]_vars

\* C25 witness: the second chunk's send failed with Unavailable, the handler
\* called CloseAndRecv, which returned Internal, and answered 500.
C25_Witness ==
    /\ up.pc = "returned"
    /\ up.sendErr = "Unavailable"
    /\ ~up.cancelled
    /\ Len(up.sent) = 3
    /\ up.recv = "Internal"
    /\ up.statuses = <<500>>

\* the status grpcStatusToHTTP gives for the error e of a stream operation
TranslatedStatus(e) == grpcStatusToHTTP(IF e \in Codes THEN e ELSE "Unknown")

\* the call could not be opened, or the send of a metadata message failed
FailedBeforeChunks(u) ==
    \/ u.openErr # "nil"
    \/ (u.sendErr # "nil" /\ Len(u.sent) < 2)

\* C26: a failure to open the client-streaming call, or to send the filename or
\* the file_type message, is answered with grpcStatusToHTTP of the error's code;
\* after it the handler sends no message, retries nothing, does not call
\* CloseAndRecv, and returns.
C26_FailureBeforeChunksIsTerminal ==
    [][/\ (up.pc = "open" /\ up'.openErr # "nil") =>
             /\ up'.pc = "ret"
             /\ ~up'.stream
             /\ up'.sent = <<>>
             /\ up'.statuses = <<TranslatedStatus(up'.openErr)>>
       /\ (up.pc \in {"send_name", "send_type"} /\ up'.sendErr # "nil") =>
             /\ up'.pc = "ret"
             /\ up'.sent = up.sent
             /\ up'.statuses = <<TranslatedStatus(up'.sendErr)>>
       /\ (up.pc \in {"open", "send_name", "send_type"} /\ up'.pc = "ret") =>
             FailedBeforeChunks(up')
       /\ FailedBeforeChunks(up) =>
             /\ up'.sent = up.sent
             /\ up'.statuses = up.statuses
             /\ up'.recv = "none"
             /\ up.pc = "ret"
             /\ up'.pc = "returned"]_vars

\* C26 witness: the filename was sent, the send of the file type failed with
\* PermissionDenied, and the handler returned after answering 403.
C26_Witness ==
    /\ up.pc = "returned"
    /\ up.sendErr = "PermissionDenied"
    /\ Len(up.sent) = 1
    /\ up.sent[1].kind = "filename"
    /\ up.recv = "none"
    /\ up.statuses = <<403>>

\* C27 as stated: when a read of the file fails with an error other than io.EOF
\* the request ends with 500 and CloseAndRecv is not called; when it reports
\* io.EOF the handler calls CloseAndRecv.
C27_ReadErrorEndsWith500 ==
    up.pc \in {"ret", "returned"} =>
        /\ up.readErr \notin {"nil", "EOF"} => (up.statuses = <<500>> /\ up.recv = "none")
        /\ up.readErr = "EOF" => up.recv # "none"

\* C27 amended: the bytes a read delivers are sent before its error is looked at.
\* When a read fails with an error other than io.EOF and the send of the bytes it
\* delivered (if any) does not fail, the request ends with 500 and CloseAndRecv is
\* not called; when a read reports io.EOF and that send does not fail, the
\* handler calls CloseAndRecv. (When that send fails, the send failure decides, as
\* C25 states.)
C27_ReadErrorAfterItsBytes ==
    [][/\ (up.pc = "chunk" /\ up'.pc # "chunk" /\ up'.sendErr = "nil") =>
             /\ up.readErr \notin {"nil", "EOF"} =>
                   /\ up'.pc = "ret"
                   /\ up'.statuses = <<500>>
                   /\ up'.recv = "none"
                   /\ up.n > 0 => Len(up'.sent) = Len(up.sent) + 1
             /\ up.readErr = "EOF" => up'.pc = "close"
             /\ up.readErr = "nil" => up'.pc = "read"
       /\ (up'.pc \in {"ret", "returned"} /\ up'.sendErr = "nil" /\ up'.openErr = "nil"
           /\ up'.stream) =>
             /\ up'.readErr \notin {"nil", "EOF"} =>
                   (up'.statuses = <<500>> /\ up'.recv = "none")
             /\ up'.readErr = "EOF" => up'.recv # "none"]_vars

\* C27 witness: the first read of a three-byte file delivered two bytes, the
\* second failed without bytes; one chunk was sent and the handler returned after
\* answering 500 without calling CloseAndRecv.
C27_Witness ==
    /\ up.pc = "returned"
    /\ up.readErr = "err"
    /\ up.sendErr = "nil"
    /\ up.n = 0
    /\ Len(up.form.data) = 3
    /\ up.pos = 2
    /\ Len(up.sent) = 3
    /\ up.recv = "none"
    /\ up.statuses = <<500>>

-----------------------------------------------------------------------------
(* Lock discipline of the discovery component *)

\* The discovery component with every user of connectionsMutex: the refresher, a
\* GetConnection caller, and main's shutdown with Close.
LockNext ==
    \/ DiscoveryNext
    \/ MainShutdown
    \/ CloseConnections
    \/ CloseReturn
    \/ BackgroundStop
    \/ MainExit

SpecLock == Init /\ [][LockNext]_vars

\* process p is between the Lock and the Unlock of connectionsMutex: in the
\* middle of a reconciliation, or of Close
InTable(p) == pc[p] \in {"rc_close", "close_ret"}

\* C28: at any moment at most one refresh pass or Close is between Lock and
\* Unlock of connectionsMutex, and only that one changes the connection table; a
\* GetConnection lookup reads the table only when none is, so it sees the table
\* before or after a whole pass; the snapshot is written by the store step of a
\* pass whose discovery succeeded, once in that pass and with that pass's
\* snapshot, and by nothing else. (The exclusion of GetAllServices readers by the
\* store is C14.)
C28_LockDiscipline ==
    [][proc' = "running" =>
          /\ \A p, q \in Procs : (InTable(p)' /\ InTable(q)') => p = q
          /\ \A p \in Procs : InTable(p)' <=> connectionsMutex' = p
          /\ connections' # connections =>
                \E p \in Procs :
                   /\ pc'[p] # pc[p]
                   /\ InTable(p) \/ InTable(p)'
                   /\ \A q \in Procs \ {p} : ~InTable(q)
          /\ \A w \in Workers :
                (gc'[w] # gc[w] /\ gc'[w].result \in {"conn", "not_found", "pending"}
                 /\ pc[w] \in {"idle", "rc_ret"}) =>
                   /\ \A q \in Procs : ~InTable(q)
                   /\ gc'[w].result = "conn" <=> gc'[w].name \in DOMAIN connections
                   /\ gc'[w].result = "conn" => gc'[w].conn = connections[gc'[w].name]
          /\ services' # services =>
                \E p \in RefreshProcs :
                   /\ pc[p] = "rc_store"
                   /\ pc'[p] = "rc_open"
                   /\ ~rc[p].err
                   /\ services' = rc[p].snap
          /\ \A p \in RefreshProcs :
                /\ (pc[p] = "rc_store" /\ pc'[p] # "rc_store") =>
                      (pc'[p] = "rc_open" /\ services' = rc[p].snap)
                /\ (pc[p] # "rc_store" /\ pc'[p] = "rc_store") => pc[p] = "rc_discover"]_vars

\* C28 witness: the background pass is in the middle of its reconciliation (it has
\* opened a connection and has a stale one left to close) while the pass of a
\* GetConnection caller waits for the lock.
C28_Witness ==
    /\ Running
    /\ pc[BgProc] = "rc_close"
    /\ connectionsMutex = BgProc
    /\ rc[BgProc].opened # {}
    /\ DOMAIN connections \ NamesOf(rc[BgProc].snap) # {}
    /\ pc[Caller] = "rc_open"

-----------------------------------------------------------------------------
(* Unknown services in setupHandlers *)

\* the descriptors of snap whose lower-cased name selects a registration routine
KnownDescriptors(snap) == SelectSeq(snap, LAMBDA s : ServiceKind(s.Name) # "unknown")

\* the descriptors of snap that fall to the default branch of the switch
UnknownNames(snap) == NamesOf(snap) \ KnownNames(snap)

\* C29: when setupHandlers has run on a snapshot, no descriptor whose lower-cased
\* name is not a statically known service name was attempted, and the routes, the
\* attempted services and the returned error are exactly those of running
\* setupHandlers on the snapshot without these descriptors: they add no error and
\* the other descriptors are processed all the same.
C29_UnknownServicesSkipped ==
    (gw.setupDone /\ ~gw.health) =>
        LET r == setupHandlers(KnownDescriptors(gw.snapshot), {}, gw.regFail,
                               gw.customFail)
        IN  /\ gw.attempted \cap UnknownNames(gw.snapshot) = {}
            /\ gw.attempted = r.attempted
            /\ gw.routes = r.routes
            /\ gw.err = r.err

\* C29 witness: setupHandlers has run on <<billing, user-service>>: billing, first
\* in the snapshot, was not attempted, user-service after it was registered, and
\* the result is nil.
C29_Witness ==
    /\ gw.setupDone
    /\ ~gw.health
    /\ NameSeq(gw.snapshot) = <<"billing", "user-service">>
    /\ gw.attempted = {"user-service"}
    /\ gw.routes = {"user"}
    /\ gw.err = <<>>

-----------------------------------------------------------------------------
(* Two upload requests in flight while the gateway serves *)

\* the errors the backend of the second request answers with
OtherStreamErrors == {"EOF", "Unavailable"}

\* binaryFileHanlder.go:101-226: the steps handleWaterQualityUpload can take from
\* the locals u of one request, the backend answering with the errors of errs
HandlerSteps(u, errs) ==
    LET sends == IF u.aborted THEN SendOutcomes(u)
                 ELSE SendOutcomes(u) \cap ({"nil"} \cup errs)
        recvs == IF u.aborted THEN RecvOutcomes(u)
                 ELSE RecvOutcomes(u) \cap ({"ok"} \cup errs)
        inFlight == u.pc \in {"send_name", "send_type", "read", "chunk", "close"}
        handler ==
            CASE u.pc = "parse" ->
                    {IF ValidateForm(u.form) # ""
                     THEN Respond(u, 400, ValidateForm(u.form))
                     ELSE FileExtracted(u)}
              [] u.pc = "dial" ->
                    {Dialed(u),
                     Respond(u, 500, "failed to connect to water quality service")}
              [] u.pc = "open" ->
                    {IF e = "nil" THEN [u EXCEPT !.stream = TRUE, !.pc = "send_name"]
                     ELSE Respond([u EXCEPT !.openErr = e], grpcStatusToHTTP(CodeOf(e)),
                                  "failed to start upload stream") :
                        e \in {"nil"} \cup errs}
              [] u.pc = "send_name" -> {SendFilename(u, e) : e \in sends}
              [] u.pc = "send_type" -> {SendFileType(u, e) : e \in sends}
              [] u.pc = "read" ->
                    {[u EXCEPT !.buffer = [i \in 1..chunkSize |->
                                             IF i <= r[1] THEN u.form.data[u.pos + i]
                                             ELSE @[i]],
                               !.pos = @ + r[1],
                               !.n = r[1],
                               !.readErr = r[2],
                               !.pc = "chunk"] :
                        r \in {x \in (0..chunkSize) \X {"nil", "EOF", "err"} :
                                 /\ u.pos + x[1] <= Len(u.form.data)
                                 /\ x[2] = "EOF" => u.pos + x[1] = Len(u.form.data)}}
              [] u.pc = "chunk" ->
                    IF u.n > 0 THEN {SendChunk(u, e) : e \in sends}
                    ELSE {AfterChunk(u)}
              [] u.pc = "close" ->
                    {Respond([u EXCEPT !.recv = r], CloseAndRecvStatus(r),
                             CloseAndRecvBody(r)) : r \in recvs}
              [] u.pc = "ret" ->
                    {[RunDeferred(u) EXCEPT !.pc = "returned"]}
              [] OTHER -> {}
        cancel == IF u.stream /\ inFlight /\ ~u.cancelled
                  THEN {[u EXCEPT !.cancelled = TRUE]} ELSE {}
        abort  == IF u.cancelled /\ ~u.aborted /\ inFlight
                  THEN {[u EXCEPT !.aborted = TRUE]} ELSE {}
    IN  handler \cup cancel \cup abort

\* the multipart requests of the two clients: different names, types and contents
FirstForm ==
    [parseOk |-> TRUE, filename |-> "q.csv", fileType |-> "csv", hasFile |-> TRUE,
     data |-> <<"a">>]
SecondForm ==
    [parseOk |-> TRUE, filename |-> "r.json", fileType |-> "json", hasFile |-> TRUE,
     data |-> <<"b">>]

\* the route registered by registerWaterQualityCustomHandlers is on the multiplexer
\* of a listening gateway
UploadRouteServed ==
    /\ Running
    /\ gw.serving
    /\ "water-quality/upload" \in gw.routes

\* binaryFileHanlder.go:85-90, 101-104: a POST on the upload route enters the
\* handler with fresh locals; the form is complete or lacks its file_type
RequestArrive ==
    /\ UploadRouteServed
    /\ up.pc = "idle"
    /\ \E f \in {FirstForm, [FirstForm EXCEPT !.fileType = ""]} :
          up' = [NoUpload EXCEPT !.pc = "parse", !.form = f]
    /\ UNCHANGED nonUploadVars

\* a second POST on the upload route, handled by its own goroutine
OtherArrive ==
    /\ UploadRouteServed
    /\ other.pc = "idle"
    /\ other' = [NoUpload EXCEPT !.pc = "parse", !.form = SecondForm]
    /\ UNCHANGED <<cluster, changes, proc, pc, services, connections, conns,
                   connectionsMutex, done, rc, gc, closeRes, gw, lastRun, disc,
                   reader, up, call>>

\* one step of the handler of the second request
OtherStep ==
    /\ other' \in HandlerSteps(other, OtherStreamErrors)
    /\ UNCHANGED <<cluster, changes, proc, pc, services, connections, conns,
                   connectionsMutex, done, rc, gc, closeRes, gw, lastRun, disc,
                   reader, up, call>>

\* the gateway starts and serves (part_004:40-67, gateway.go:136-168); once the
\* upload route is served two requests are handled concurrently
RequestsNext ==
    \/ NewDiscoveryBegin
    \/ NewDiscoveryReturn
    \/ RefreshDiscover(MainProc)
    \/ RefreshStore(MainProc)
    \/ RefreshOpen(MainProc)
    \/ RefreshCloseInactive(MainProc)
    \/ GatewaySetupHandlers
    \/ GatewayListen
    \/ RequestArrive
    \/ OtherArrive
    \/ UploadNext
    \/ OtherStep

InitRequests ==
    /\ Init
    /\ cluster = <<UserGrpc, WaterPlain>>

SpecRequests == InitRequests /\ [][RequestsNext]_vars

\* a step taken by the handler of the request with locals u, leaving them v: it
\* leaves the discovery snapshot, the connection table with its connections and
\* the registered routes as they were, and it is a step of the handler on u alone
HandlerStepIsLocal(u, v) ==
    /\ UNCHANGED <<services, connections, conns>>
    /\ gw'.routes = gw.routes
    /\ u.pc # "idle" => v \in HandlerSteps(u, StreamErrors)

\* C30: while the gateway serves two concurrent uploads, every step of the handler
\* of one request, on any success or failure path, leaves the discovery snapshot,
\* the connection table and the registered routes unchanged and leaves the other
\* request's session (form values, stream, cancellation, backend connection,
\* messages, answer) untouched; what the step does is determined by the request's
\* own locals, and each stream carries its own request's filename, file type and
\* bytes only.
C30_RequestIsolation ==
    /\ [](MetadataThenChunksInFileOrder(up) /\ MetadataThenChunksInFileOrder(other))
    /\ [][/\ up' # up => (other' = other /\ HandlerStepIsLocal(up, up'))
          /\ other' # other => (up' = up /\ HandlerStepIsLocal(other, other'))]_vars

\* C30 witness: the first request has failed with a translated backend error and
\* returned, its connection closed, while the second, with its own open stream and
\* connection, has sent its own metadata and chunk and awaits the backend's reply;
\* snapshot, table and routes are those of the started gateway.
C30_Witness ==
    /\ UploadRouteServed
    /\ services # <<>>
    /\ "water-quality-service" \in DOMAIN connections
    /\ up.pc = "returned"
    /\ up.statuses = <<503>>
    /\ up.connClosed
    /\ other.pc = "close"
    /\ other.stream
    /\ ~other.connClosed
    /\ other.sent = <<FilenameMsg("r.json"), FileTypeMsg("json"),
                      DataChunkMsg(<<"b", "0">>, 1)>>

-----------------------------------------------------------------------------
(* The stored snapshot *)

\* the process starts in a namespace that holds any of the listings
InitStored ==
    /\ cluster \in Listings
    /\ changes = 0
    /\ proc = "running"
    /\ pc = [p \in Procs |-> IF p = MainProc THEN "start"
                             ELSE IF p \in Workers THEN "idle" ELSE "off"]
    /\ services = <<>>
    /\ connections = NoConnections
    /\ conns = NoConnections
    /\ connectionsMutex = NoProc
    /\ done = FALSE
    /\ rc = [p \in RefreshProcs |-> NoRefresh]
    /\ gc = [w \in Workers |-> NoCall]
    /\ closeRes = NoClose
    /\ gw = NoGateway
    /\ lastRun = NoLastRun
    /\ disc = NoDiscover
    /\ reader = NoReader
    /\ up = NoUpload
    /\ other = NoUpload
    /\ call = NoFunctionCall

\* NewKubernetesDiscovery with its initial pass, then the passes of the background
\* refresher
StoredNext ==
    \/ NewDiscoveryBegin
    \/ NewDiscoveryReturn
    \/ \E p \in {MainProc, BgProc} : RefreshDiscover(p)
    \/ \E p \in {MainProc, BgProc} : RefreshStore(p)
    \/ \E p \in {MainProc, BgProc} : RefreshOpen(p)
    \/ \E p \in {MainProc, BgProc} : RefreshCloseInactive(p)
    \/ BackgroundTick
    \/ BackgroundRefreshReturn

SpecStored == InitStored /\ [][StoredNext]_vars

\* descriptor d is made from an item of the listing: same name, and an endpoint
\* spelled name.namespace.svc.cluster.local:port with a non-zero port the item
\* declares
MadeFromListing(d, listing) ==
    \E i \in 1..Len(listing) :
        /\ listing[i].Name = d.Name
        /\ \E k \in 1..Len(listing[i].Ports) :
              /\ listing[i].Ports[k].Port # 0
              /\ d.Endpoint = d.Name \o "." \o namespace \o ".svc.cluster.local:"
                                \o ToString(listing[i].Ports[k].Port)

\* C31: in every state the stored snapshot holds only descriptors with a non-empty
\* endpoint, composed from the descriptor's name, the namespace and a non-zero port
\* of the listed service, and no two of its descriptors have the same name (each
\* listing names a service once).
C31_SnapshotWellFormed ==
    /\ \A i \in 1..Len(services) :
          /\ services[i].Endpoint # ""
          /\ MadeFromListing(services[i], cluster)
    /\ \A i, j \in 1..Len(services) :
          services[i].Name = services[j].Name => i = j

\* C31 witness: the stored snapshot of a listing <<billing without ports,
\* user-service with http:8080 and grpc:9000>> is the one descriptor of
\* user-service, on port 9000.
C31_Witness ==
    /\ cluster = <<Item("billing", <<>>),
                   Item("user-service", <<Port("http", 8080), Port("grpc", 9000)>>)>>
    /\ services = <<[Name |-> "user-service",
                     Endpoint |-> "user-service.ride-sharing.svc.cluster.local:9000"]>>

-----------------------------------------------------------------------------
(* Overlapping refresh passes *)

\* the cluster has changed once and the pass of p holds the listing obtained before
\* the change, while a pass that listed after it has stored its result: the stored
\* snapshot is that of the present listing (distinct listings of the catalog give
\* distinct snapshots, and an empty snapshot may be the initial one)
HoldsOlderListing(p) ==
    /\ changes = 1
    /\ discoverServices(cluster) # <<>>
    /\ rc[p].snap # discoverServices(cluster)

\* C32 as stated: a pass holding an older listing never overwrites the result of a
\* pass that listed later: it does not replace the snapshot that pass stored, and
\* it does not change the table that pass's reconciliation left, so that after
\* both passes snapshot and table reflect the later listing.
C32_OlderListingNeverOverwrites ==
    [][\A p \in RefreshProcs :
          /\ (/\ HoldsOlderListing(p)
              /\ pc[p] = "rc_store" /\ pc'[p] = "rc_open"
              /\ services = discoverServices(cluster))
                => services' = services
          /\ (/\ HoldsOlderListing(p)
              /\ pc[p] \in {"rc_open", "rc_close"} /\ pc'[p] # pc[p]
              /\ lastRun.ran
              /\ lastRun.snap = discoverServices(cluster)
              /\ Delete(connections, rc[p].opened) = lastRun.table)
                => connections' = lastRun.table]_vars

-----------------------------------------------------------------------------
(* After Close *)

\* C33 as stated: once Close has returned (and while the process lives), the
\* connection table is empty and no connection object is open: no pass that was in
\* flight when Close was called and no later pass opens a connection that stays
\* open.
C33_NoConnectionSurvivesClose ==
    (Running /\ closeRes.returned) =>
        /\ connections = NoConnections
        /\ \A i \in DOMAIN conns : conns[i].closes > 0

-----------------------------------------------------------------------------
(* GetConnection statement by statement *)

\* discovery.go:146-152: conn, ok := kd.connections[serviceName] between RLock and
\* RUnlock; the pointer is now a local of the call, the lock is released
GetConnectionLookup(w) ==
    /\ Running
    /\ Constructed
    /\ pc[w] = "idle"
    /\ connectionsMutex = NoProc
    /\ \E name \in QueryNames :
          IF name \in DOMAIN connections
          THEN /\ gc' = [gc EXCEPT ![w] = [name |-> name, passes |-> 0,
                                           result |-> "pending",
                                           conn |-> connections[name]]]
               /\ pc' = [pc EXCEPT ![w] = "gc_ret"]
          ELSE /\ gc' = [gc EXCEPT ![w] = [name |-> name, passes |-> 0,
                                           result |-> "pending", conn |-> 0]]
               /\ pc' = [pc EXCEPT ![w] = "rc_discover"]
    /\ conns' = Collect(conns, connections, gc')
    /\ UNCHANGED <<cluster, changes, proc, services, connections,
                   connectionsMutex, done, rc, closeRes, gw,
                   lastRun, callVars>>

\* discovery.go:156-161: RefreshConnections returned nil; the second lookup between
\* RLock and RUnlock, "not found after refresh" on a miss
GetConnectionLookupAgain(w) ==
    /\ Running
    /\ pc[w] = "rc_ret"
    /\ ~rc[w].err
    /\ connectionsMutex = NoProc
    /\ IF gc[w].name \in DOMAIN connections
       THEN /\ gc' = [gc EXCEPT ![w].conn = connections[gc[w].name]]
            /\ pc' = [pc EXCEPT ![w] = "gc_ret"]
       ELSE /\ gc' = [gc EXCEPT ![w].result = "not_found", ![w].conn = 0]
            /\ pc' = [pc EXCEPT ![w] = "idle"]
    /\ rc' = [rc EXCEPT ![w] = NoRefresh]
    /\ conns' = Collect(conns, connections, gc')
    /\ UNCHANGED <<cluster, changes, proc, services, connections,
                   connectionsMutex, done, closeRes, gw, lastRun, callVars>>

\* discovery.go:163: return conn, nil
GetConnectionReturn(w) ==
    /\ Running
    /\ pc[w] = "gc_ret"
    /\ gc' = [gc EXCEPT ![w].result = "conn"]
    /\ pc' = [pc EXCEPT ![w] = "idle"]
    /\ UNCHANGED <<cluster, changes, proc, services, connections, conns,
                   connectionsMutex, done, rc, closeRes, gw, lastRun, callVars>>

\* the discovery component with GetConnection taken statement by statement: the
\* lookups under the read lock and the return are separate steps of the caller
HandOutNext ==
    \/ NewDiscoveryBegin
    \/ NewDiscoveryReturn
    \/ \E p \in RefreshProcs : RefreshDiscover(p)
    \/ \E p \in RefreshProcs : RefreshStore(p)
    \/ \E p \in RefreshProcs : RefreshOpen(p)
    \/ \E p \in RefreshProcs : RefreshCloseInactive(p)
    \/ BackgroundTick
    \/ BackgroundRefreshReturn
    \/ \E w \in Workers : GetConnectionLookup(w)
    \/ \E w \in Workers : GetConnectionRefreshFailed(w)
    \/ \E w \in Workers : GetConnectionLookupAgain(w)
    \/ \E w \in Workers : GetConnectionReturn(w)
    \/ ClusterChange

SpecHandOut == Init /\ [][HandOutNext]_vars

\* C34 as stated: at the step in which GetConnection returns a connection, Close
\* has not been called on that connection.
C34_ReturnedConnectionIsOpen ==
    [][\A w \in Workers :
          (pc[w] = "gc_ret" /\ pc'[w] = "idle") =>
              conns'[gc'[w].conn].closes = 0]_vars

-----------------------------------------------------------------------------
(* Endpoints of the tracked connections *)

\* C35 as stated: when a refresh pass in which every open succeeded completes,
\* every connection of the table targets the endpoint that the pass's snapshot
\* gives for its name; a service that kept its name and changed its port has a
\* connection to the new endpoint.
C35_ConnectionsFollowEndpoints ==
    [][\A p \in RefreshProcs :
          (pc[p] = "rc_close" /\ pc'[p] = "rc_ret" /\ rc[p].failed = {}) =>
              \A n \in DOMAIN connections' :
                  /\ n \in NamesOf(rc[p].snap)
                  /\ conns'[connections'[n]].target =
                        DescriptorOf(rc[p].snap, n).Endpoint]_vars

-----------------------------------------------------------------------------
(* Ownership of the connections *)

\* the connection objects the table refers to
Tracked == {connections[n] : n \in DOMAIN connections}

\* C36: in every state every connection of the table is open and no two names
\* share a connection, and every connection object that is no longer in the table
\* has had Close called on it exactly once; in every step of the component an
\* entry of the table is never replaced (no connection is opened for a name that
\* has one), an entry that appears holds a fresh open connection, and an entry that
\* disappears, by a reconciliation or by Close, has its connection closed in that
\* step: no opened connection leaves the table unclosed.
C36_ConnectionOwnership ==
    /\ [](/\ \A n \in DOMAIN connections :
                /\ connections[n] \in DOMAIN conns
                /\ conns[connections[n]].closes = 0
          /\ \A n, m \in DOMAIN connections :
                connections[n] = connections[m] => n = m
          /\ \A i \in DOMAIN conns \ Tracked : conns[i].closes = 1)
    /\ [][proc' = "running" =>
            /\ \A n \in DOMAIN connections \cap DOMAIN connections' :
                  connections'[n] = connections[n]
            /\ \A n \in DOMAIN connections' \ DOMAIN connections :
                  /\ connections'[n] \notin DOMAIN conns
                  /\ conns'[connections'[n]].closes = 0
            /\ \A n \in DOMAIN connections \ DOMAIN connections' :
                  /\ conns[connections[n]].closes = 0
                  /\ conns'[connections[n]].closes = 1
                  /\ pc[MainProc] = "close_all" \/ \E p \in RefreshProcs : pc[p] = "rc_close"]_vars

\* C36 witness: the background pass has closed and removed the connection of
\* water-quality-service, which a request goroutine still holds from an earlier
\* GetConnection (closed once), has opened one for billing, and has kept the open
\* connection of user-service.
C36_Witness ==
    /\ pc[BgProc] = "rc_ret"
    /\ DOMAIN connections = {"billing", "user-service"}
    /\ rc[BgProc].opened = {"billing"}
    /\ \E i \in DOMAIN conns \ Tracked :
          /\ conns[i].closes = 1
          /\ conns[i].target = Endpoint("water-quality-service", namespace, 7000)

-----------------------------------------------------------------------------
(* What a 200 answer says about the upload *)

\* C37 as stated: the handler answers 200 only if the reads reached the end of the
\* file and every chunk was sent, the bytes sent being the file's; a request whose
\* chunk send failed is never answered 200. (Stated for the requests where no Send
\* returned a status error: on io.EOF, the failure by which grpc reports that the
\* backend has ended the stream, the stream's status is read by CloseAndRecv and
\* may be OK.)
C37_OkImpliesCompleteUpload ==
    (/\ \E i \in 1..Len(up.statuses) : up.statuses[i] = 200
     /\ up.sendErr \in {"nil", "EOF"}
     /\ ~up.cancelled) =>
        /\ up.sendErr = "nil"
        /\ up.readErr = "EOF"
        /\ Len(up.sent) >= 2
        /\ Concat(ChunkPayloads(up.sent)) = up.form.data

-----------------------------------------------------------------------------
(* Progress of the discovery component *)

\* Every operation of the component in one namespace: the constructor, the
\* background refresher, a goroutine calling GetConnection, one calling
\* GetAllServices, and Close (called by main's shutdown, the process staying
\* alive after it).
LiveNext ==
    \/ NewDiscoveryBegin
    \/ NewDiscoveryReturn
    \/ \E p \in RefreshProcs : RefreshDiscover(p)
    \/ \E p \in RefreshProcs : RefreshStore(p)
    \/ \E p \in RefreshProcs : RefreshOpen(p)
    \/ \E p \in RefreshProcs : RefreshCloseInactive(p)
    \/ BackgroundTick
    \/ BackgroundRefreshReturn
    \/ BackgroundStop
    \/ \E w \in Workers : GetConnectionCall(w)
    \/ \E w \in Workers : GetConnectionRefreshFailed(w)
    \/ \E w \in Workers : GetConnectionAfterRefresh(w)
    \/ GetAllServicesBegin
    \/ GetAllServicesCopy
    \/ GetAllServicesReturn
    \/ MainShutdown
    \/ CloseConnections
    \/ CloseReturn

\* one service in the namespace, with a gRPC port
InitLive ==
    /\ cluster = <<UserGrpc>>
    /\ changes = 0
    /\ proc = "running"
    /\ pc = [p \in Procs |-> IF p = MainProc THEN "start"
                             ELSE IF p \in Workers THEN "idle" ELSE "off"]
    /\ services = <<>>
    /\ connections = NoConnections
    /\ conns = NoConnections
    /\ connectionsMutex = NoProc
    /\ done = FALSE
    /\ rc = [p \in RefreshProcs |-> NoRefresh]
    /\ gc = [w \in Workers |-> NoCall]
    /\ closeRes = NoClose
    /\ gw = NoGateway
    /\ lastRun = NoLastRun
    /\ disc = NoDiscover
    /\ reader = NoReader
    /\ up = NoUpload
    /\ other = NoUpload
    /\ call = NoFunctionCall

\* The scheduling the code relies on. A goroutine that can run does run, and the
\* calls it makes outside the locks (the listing, NewClient, conn.Close) return:
\* weak fairness of its steps. sync.Mutex and sync.RWMutex hand the lock to a
\* goroutine that keeps waiting (starvation mode), and select picks a ready case
\* at random, so the closed kd.done is chosen eventually: strong fairness of the
\* acquisitions and of the refresher's stop. No fairness for the ticker, for the
\* arrival of requests or for the signal.
LiveFairness ==
    /\ WF_vars(NewDiscoveryBegin)
    /\ WF_vars(NewDiscoveryReturn)
    /\ \A p \in RefreshProcs :
          /\ WF_vars(RefreshDiscover(p))
          /\ SF_vars(RefreshStore(p))
          /\ SF_vars(RefreshOpen(p))
          /\ WF_vars(RefreshCloseInactive(p))
    /\ WF_vars(BackgroundRefreshReturn)
    /\ SF_vars(BackgroundStop)
    /\ \A w \in Workers :
          /\ WF_vars(GetConnectionRefreshFailed(w))
          /\ SF_vars(GetConnectionAfterRefresh(w))
    /\ WF_vars(GetAllServicesCopy)
    /\ WF_vars(GetAllServicesReturn)
    /\ SF_vars(CloseConnections)
    /\ WF_vars(CloseReturn)

SpecLive == InitLive /\ [][LiveNext]_vars /\ LiveFairness

\* A goroutine inside RefreshConnections before it takes connectionsMutex: the
\* only place where it takes servicesMutex
BeforeConnectionsLock(p) == pc[p] \in {"rc_discover", "rc_store", "rc_open"}

\* A goroutine waiting for servicesMutex.Lock (rc_store), for
\* connectionsMutex.Lock (rc_open, Close) or for connectionsMutex.RLock (the
\* second lookup of GetConnection), or holding connectionsMutex
AtLock(p) ==
    \/ pc[p] \in {"rc_store", "rc_open"}
    \/ p = MainProc /\ pc[p] = "close_all"
    \/ p \in Workers /\ pc[p] = "rc_ret"
    \/ connectionsMutex = p

\* C38: no goroutine blocks forever on servicesMutex or connectionsMutex. A
\* goroutine never holds both locks (it takes servicesMutex only before it takes
\* connectionsMutex, and the reader of GetAllServices never takes
\* connectionsMutex); every goroutine that waits for a lock or holds one gets
\* past it, again and again; a GetAllServices call releases its read lock; and
\* once Close has closed kd.done the background refresher stops (or the process
\* has ended).
C38_NoGoroutineBlocksForever ==
    /\ [](\A p \in RefreshProcs :
             /\ BeforeConnectionsLock(p) => connectionsMutex # p
             /\ connectionsMutex = p => pc[p] \in {"rc_close", "close_ret"})
    /\ \A p \in RefreshProcs : []<>(~AtLock(p) \/ ~Running)
    /\ []<>(~ReadLocked \/ ~Running)
    /\ done ~> (pc[BgProc] = "stopped" \/ ~Running)

\* Close has returned and the refresher has stopped, after a pass of the
\* refresher and a call of GetConnection that each took both locks in turn
C38_Witness ==
    /\ Running
    /\ done
    /\ closeRes.returned
    /\ pc[BgProc] = "stopped"
    /\ pc[Caller] = "idle"
    /\ gc[Caller].passes > 0
    /\ reader.returned
    /\ connectionsMutex = NoProc

-----------------------------------------------------------------------------
(* Release of the resources of an upload *)

\* C39: when the upload handler has returned, on whatever path, the file it got
\* from the form is closed; if it created the backend connection, that
\* connection is closed and the deadline context of the stream is cancelled; and
\* no deferred call is left to run.
C39_UploadReleasesResources ==
    up.pc = "returned" =>
        /\ up.defers = <<>>
        /\ up.file \in {"none", "closed"}
        /\ up.file = "none" <=> ValidateForm(up.form) # ""
        /\ up.ctx \in {"none", "cancelled"}
        /\ up.conn => up.connClosed /\ up.ctx = "cancelled" /\ up.file = "closed"

\* the handler has returned after a chunk send failed with an error it reports:
\* an early return inside the loop, with the connection and the stream open
C39_Witness ==
    /\ up.pc = "returned"
    /\ up.conn
    /\ up.stream
    /\ up.sendErr \notin {"nil", "EOF"}
    /\ Len(up.sent) = 3
    /\ up.recv = "none"
    /\ up.connClosed
    /\ up.ctx = "cancelled"
    /\ up.file = "closed"

====
